---- MODULE Spec2Model ----
(***************************************************************************)
(* Emergency session lifecycle of the Happy Yellow Kiwi app: the App       *)
(* component's state (emergencyStatus, emergencySession, medicalProfile),  *)
(* the handleStatusChange transitions with their suspension points, the    *)
(* screens' button handlers, the grace-delay reset timer, initializeApp,   *)
(* and the size-routed SecureStorage underneath.                           *)
(***************************************************************************)
EXTENDS Integers, Sequences, FiniteSets, Bags, TLC

(***************************************************************************)
(* Bounds of the model.                                                    *)
(***************************************************************************)
MaxEvents == 2     \* button presses, countdown expiries and app-state changes per behaviour

(***************************************************************************)
(* Program constants.                                                      *)
(***************************************************************************)
SECURE_STORE_SIZE_LIMIT == 1536
AuditLogCap == 50
CountdownSeconds == 10
IsoTimestampLen == 24          \* new Date().toISOString()
DateNowDigits == 13            \* `${Date.now()}`

MEDICAL_PROFILE_KEY == "medical_profile"
EMERGENCY_SESSION_KEY == "emergency_session"
AUDIT_LOG_KEY == "audit_log"
DataKeys == {MEDICAL_PROFILE_KEY, EMERGENCY_SESSION_KEY, AUDIT_LOG_KEY}

EmergencyStatus ==
    {"detection", "confirmation", "in_progress", "follow_up", "cancelled", "completed"}
TerminalStatus == {"completed", "cancelled"}

Null == [null |-> TRUE]
Undefined == [undefined |-> TRUE]

(***************************************************************************)
(* Values.                                                                 *)
(***************************************************************************)
\* The location of the spec's scenario: {37.0, -122.0, 5, t1}.
LocationData(t) == [latitude |-> 37, longitude |-> -122, accuracy |-> 5, timestamp |-> t]

\* A stored medical profile with one primary and one secondary contact.
SampleProfile ==
    [id |-> "profile_1",
     firstName |-> "Kiri", lastName |-> "Moana",
     emergencyContacts |->
        << [name |-> "Alice", isPrimary |-> TRUE],
           [name |-> "Bob", isPrimary |-> FALSE] >>]

AuditEntry(t, action, details) == [timestamp |-> t, action |-> action, details |-> details]

SessionId(t) == "emergency_" \o ToString(t)

(***************************************************************************)
(* JSON.stringify / JSON.parse.  A serialized value carries the length of  *)
(* its JSON text (what storeData routes on) and its JSON content: a key    *)
(* whose value is undefined is dropped by stringify and is read back as    *)
(* undefined after parse.                                                  *)
(***************************************************************************)
StringLen(str) == Len(str) + 2

\* {"timestamp":"..","action":"..","details":".."}
EntryLen(e) == 41 + IsoTimestampLen + Len(e.action) + Len(e.details)

\* the brackets and commas of the JSON text of an array of n elements
ArrayPunctuation(n) == 2 + (IF n > 1 THEN n - 1 ELSE 0)

RECURSIVE NamesLen(_)
\* length of the JSON text of an array of strings
NamesLen(names) ==
    IF names = <<>> THEN ArrayPunctuation(0)
    ELSE StringLen(Head(names)) + NamesLen(Tail(names))
            + (ArrayPunctuation(Len(names)) - ArrayPunctuation(Len(names) - 1))

RECURSIVE LogLen(_)
\* length of the JSON text of an array of audit entries
LogLen(log) ==
    IF log = <<>> THEN ArrayPunctuation(0)
    ELSE EntryLen(Head(log)) + LogLen(Tail(log))
            + (ArrayPunctuation(Len(log)) - ArrayPunctuation(Len(log) - 1))

\* {"latitude":37,"longitude":-122,"accuracy":5,"timestamp":".."}
LocationLen == 60 + IsoTimestampLen

\* {"id":..,"startTime":..,"status":..,"medicalProfileId":..,
\*  "contactsNotified":[..],"auditLog":[..](,"location":{..})}
SessionLen(s) ==
    90 + (10 + DateNowDigits) + IsoTimestampLen + Len(s.status) + Len(s.medicalProfileId)
       + NamesLen(s.contactsNotified)
       + LogLen(s.auditLog)
       + (IF s.location = Undefined THEN 0 ELSE 12 + LocationLen)

ProfileLen == 433

StringifySession(s) ==
    [len |-> SessionLen(s),
     json |-> IF s.location = Undefined
              THEN [k \in (DOMAIN s) \ {"location"} |-> s[k]]
              ELSE s]

ParseSession(data) ==
    IF "location" \in DOMAIN data.json
    THEN data.json
    ELSE [k \in (DOMAIN data.json) \cup {"location"} |->
            IF k = "location" THEN Undefined ELSE data.json[k]]

StringifyProfile(p) == [len |-> ProfileLen, json |-> p]
ParseProfile(data) == data.json

StringifyLog(log) == [len |-> LogLen(log), json |-> log]
ParseLog(data) == data.json


(***************************************************************************)
(* State.                                                                  *)
(***************************************************************************)
VARIABLES
    emergencyStatus,    \* App: useState<EmergencyStatus>('detection')
    emergencySession,   \* App: useState<EmergencySession | null>(null)
    medicalProfile,     \* App: useState<MedicalProfile | null>(null)
    appState,           \* App: useState(AppState.currentState)
    countdown,          \* EmergencyConfirmationScreen: useState(countdownSeconds)
    isConfirmed,        \* EmergencyConfirmationScreen: useState(false)
    pending,            \* bag of button handlers suspended before onStatusChange / onCancel
    calls,              \* bag of handleStatusChange calls suspended at an await
    inits,              \* bag of initializeApp runs suspended at an await
    resetTimers,        \* number of pending setTimeout(..., 3000) resets
    storage,            \* SecureStore, AsyncStorage and the encryption keys
    alerts,             \* number of 'Error' alerts raised by handleStatusChange
    now,                \* clock read by Date.now() / new Date()
    stateWrites,        \* history: number of writes to emergencyStatus / emergencySession
    nEvents,            \* presses and app-state changes so far (bounded by MaxEvents)
    request,            \* service specifications: the call under way and its inputs
    response,           \* service specifications: what the last call returned
    written,            \* history: what the calls that returned have written
    auditCalls,         \* bag of addAuditEntry calls suspended between read and write
    nOps                \* service specifications: calls made so far

\* the variables of the App component and of its screens
appVars == << emergencyStatus, emergencySession, medicalProfile, appState, countdown,
              isConfirmed, pending, calls, inits, resetTimers, alerts, now,
              stateWrites, nEvents >>

\* the variables that only the specifications of single services use
svcVars == << request, response, written, auditCalls, nOps >>

vars == << emergencyStatus, emergencySession, medicalProfile, appState, countdown,
           isConfirmed, pending, calls, inits, resetTimers, storage,
           alerts, now, stateWrites, nEvents,
           request, response, written, auditCalls, nOps >>

(***************************************************************************)
(* EncryptedAsyncStorage.  A generated key is a fresh number; a ciphertext *)
(* remembers the key it was made with, and decrypting with another key     *)
(* yields garbage.                                                         *)
(***************************************************************************)
Garbage == [garbage |-> TRUE]

encrypt(data, key) == [ct |-> data, key |-> key]
decrypt(encryptedData, key) == IF encryptedData.key = key THEN encryptedData.ct ELSE Garbage

\* returns the storage after the call and the key
getEncryptionKey(st, dataType) ==
    IF st.encKey[dataType] # 0
    THEN [st |-> st, key |-> st.encKey[dataType]]
    ELSE [st |-> [st EXCEPT !.encKey[dataType] = st.keyGen + 1, !.keyGen = st.keyGen + 1],
          key |-> st.keyGen + 1]

setItem(st, dataType, data) ==
    LET k == getEncryptionKey(st, dataType)
    IN  [k.st EXCEPT !.async[dataType] = encrypt(data, k.key)]

\* returns the storage after the call and the value read
getItem(st, dataType) ==
    IF st.async[dataType] = Null
    THEN [st |-> st, val |-> Null]
    ELSE LET k == getEncryptionKey(st, dataType)
         IN  [st |-> k.st, val |-> decrypt(st.async[dataType], k.key)]

removeItem(st, dataType) ==
    [st EXCEPT !.async[dataType] = Null, !.encKey[dataType] = 0]

(***************************************************************************)
(* SecureStorage: size-routed store, retrieve, remove.                     *)
(***************************************************************************)
\* storeData with the SecureStore copy kept when the value goes to the encrypted store
storeDataKeepsSecureCopy(st, key, data) ==
    IF data.len <= SECURE_STORE_SIZE_LIMIT
    THEN [st EXCEPT !.secure[key] = data]
    ELSE setItem(st, key, data)

storeData(st, key, data) ==
    IF data.len <= SECURE_STORE_SIZE_LIMIT
    THEN [st EXCEPT !.secure[key] = data]
    ELSE [setItem(st, key, data) EXCEPT !.secure[key] = Null]

\* the storages a storeData that throws can leave behind: nothing written, or, on
\* the large path, the key generated and the encrypted copy not written (a failure
\* of the SecureStore delete that follows the encrypted write is swallowed)
storeDataThrows(st, key, data) ==
    IF data.len <= SECURE_STORE_SIZE_LIMIT
    THEN {st}
    ELSE {st, getEncryptionKey(st, key).st}

retrieveData(st, key) ==
    IF st.secure[key] # Null
    THEN [st |-> st, val |-> st.secure[key]]
    ELSE getItem(st, key)

removeData(st, key) ==
    removeItem([st EXCEPT !.secure[key] = Null], key)

\* auditLog.slice(-50)
SliceLast(log, n) == IF Len(log) > n THEN SubSeq(log, Len(log) - n + 1, Len(log)) ELSE log

\* addAuditEntry without the slice(-50)
addAuditEntryUncapped(st, entry) ==
    LET r == retrieveData(st, AUDIT_LOG_KEY)
    IN  IF r.val = Garbage
        THEN r.st
        ELSE LET auditLog == IF r.val = Null THEN <<>> ELSE ParseLog(r.val)
             IN  storeData(r.st, AUDIT_LOG_KEY, StringifyLog(Append(auditLog, entry)))

\* Never throws: a log that does not parse leaves the storage as it was read.
addAuditEntry(st, entry) ==
    LET r == retrieveData(st, AUDIT_LOG_KEY)
    IN  IF r.val = Garbage
        THEN r.st
        ELSE LET auditLog == IF r.val = Null THEN <<>> ELSE ParseLog(r.val)
                 pushed == Append(auditLog, entry)
             IN  storeData(r.st, AUDIT_LOG_KEY, StringifyLog(SliceLast(pushed, AuditLogCap)))

getAuditLog(st) ==
    LET r == retrieveData(st, AUDIT_LOG_KEY)
    IN  IF r.val = Null \/ r.val = Garbage THEN <<>> ELSE ParseLog(r.val)

\* clearAuditLog with an 'audit_log_cleared' entry appended after the removal
clearAuditLogLogged(st) ==
    addAuditEntry(removeData(st, AUDIT_LOG_KEY),
                  AuditEntry(0, "audit_log_cleared", "Audit log cleared"))

\* console.log only: no audit entry is appended for the clear
clearAuditLog(st) == removeData(st, AUDIT_LOG_KEY)

(***************************************************************************)
(* Session and profile operations of SecureStorage, as far as they touch   *)
(* their own key.  Each of them also calls addAuditEntry afterwards, which *)
(* writes the audit_log key only and never throws.  Nothing that Spec's    *)
(* steps read depends on the audit_log key, and Spec does not track it:    *)
(* its states are the program's states without that key's value.           *)
(***************************************************************************)
saveEmergencySession(st, session) ==
    storeData(st, EMERGENCY_SESSION_KEY, StringifySession(session))

\* getEmergencySession with terminal sessions filtered out by the store
getEmergencySessionFiltered(st) ==
    LET r == retrieveData(st, EMERGENCY_SESSION_KEY)
    IN  IF r.val = Null THEN [st |-> r.st, val |-> Null, threw |-> FALSE]
        ELSE IF r.val = Garbage THEN [st |-> r.st, val |-> Null, threw |-> TRUE]
        ELSE IF ParseSession(r.val).status \in TerminalStatus
        THEN [st |-> r.st, val |-> Null, threw |-> FALSE]
        ELSE [st |-> r.st, val |-> ParseSession(r.val), threw |-> FALSE]

\* returns the storage after the call, the session (or Null) and whether it threw
getEmergencySession(st) ==
    LET r == retrieveData(st, EMERGENCY_SESSION_KEY)
    IN  IF r.val = Null THEN [st |-> r.st, val |-> Null, threw |-> FALSE]
        ELSE IF r.val = Garbage THEN [st |-> r.st, val |-> Null, threw |-> TRUE]
        ELSE [st |-> r.st, val |-> ParseSession(r.val), threw |-> FALSE]

getMedicalProfile(st) ==
    LET r == retrieveData(st, MEDICAL_PROFILE_KEY)
    IN  IF r.val = Null THEN [st |-> r.st, val |-> Null, threw |-> FALSE]
        ELSE IF r.val = Garbage THEN [st |-> r.st, val |-> Null, threw |-> TRUE]
        ELSE [st |-> r.st, val |-> ParseProfile(r.val), threw |-> FALSE]

(***************************************************************************)
(* LocationService.getLocationForEmergency, from what the platform         *)
(* answers: permissionGranted is checkPermissions() or, failing that,      *)
(* requestPermissions() (both catch their errors and answer false);        *)
(* servicesEnabled is isLocationEnabled() (likewise); primaryOk and        *)
(* fallbackOk tell whether getCurrentPositionAsync resolves or throws.     *)
(* this.hasPermission is true whenever the catch block runs, since it was  *)
(* set by the call that granted the permission.  The result has the audit  *)
(* action logged, the value resolved to, the accuracies of the position    *)
(* fetches made, in order, and whether the call threw.                     *)
(***************************************************************************)
\* getLocationForEmergency with the second failure left uncaught
getLocationForEmergencyRethrows(permissionGranted, servicesEnabled, primaryOk, fallbackOk, t) ==
    IF ~permissionGranted
    THEN [action |-> "emergency_location_permission_denied", result |-> Null,
          fetches |-> <<>>, threw |-> FALSE]
    ELSE IF ~servicesEnabled
    THEN [action |-> "emergency_location_services_disabled", result |-> Null,
          fetches |-> <<>>, threw |-> FALSE]
    ELSE IF primaryOk
    THEN [action |-> "emergency_location_obtained", result |-> LocationData(t),
          fetches |-> << "Balanced" >>, threw |-> FALSE]
    ELSE IF fallbackOk
    THEN [action |-> "emergency_location_fallback", result |-> LocationData(t),
          fetches |-> << "Balanced", "Low" >>, threw |-> FALSE]
    ELSE [action |-> "emergency_location_failed", result |-> Null,
          fetches |-> << "Balanced", "Low" >>, threw |-> TRUE]

getLocationForEmergency(permissionGranted, servicesEnabled, primaryOk, fallbackOk, t) ==
    IF ~permissionGranted
    THEN [action |-> "emergency_location_permission_denied", result |-> Null,
          fetches |-> <<>>, threw |-> FALSE]
    ELSE IF ~servicesEnabled
    THEN [action |-> "emergency_location_services_disabled", result |-> Null,
          fetches |-> <<>>, threw |-> FALSE]
    ELSE IF primaryOk
    THEN [action |-> "emergency_location_obtained", result |-> LocationData(t),
          fetches |-> << "Balanced" >>, threw |-> FALSE]
    ELSE IF fallbackOk
    THEN [action |-> "emergency_location_fallback", result |-> LocationData(t),
          fetches |-> << "Balanced", "Low" >>, threw |-> FALSE]
    ELSE [action |-> "emergency_location_failed", result |-> Null,
          fetches |-> << "Balanced", "Low" >>, threw |-> FALSE]

(***************************************************************************)
(* EmergencyContactService.notifyEmergencyContacts.  sendResult[i] is what *)
(* SMS.sendSMSAsync does for contact i: "sent", "failed" (another result)  *)
(* or "error" (it throws).  Returns the names notified, the audit actions  *)
(* logged and the indices of the contacts a send was attempted for, all in *)
(* order, and whether the call threw.                                      *)
(***************************************************************************)
SendResults == {"sent", "failed", "error"}

RECURSIVE SendAllStopsAtError(_, _, _)
\* SendAll with a throwing send ending the loop over the tier
SendAllStopsAtError(contacts, idx, sendResult) ==
    IF idx = <<>> THEN [names |-> <<>>, actions |-> <<>>, attempted |-> <<>>]
    ELSE LET i == Head(idx)
             rest == IF sendResult[i] = "error"
                     THEN [names |-> <<>>, actions |-> <<>>, attempted |-> <<>>]
                     ELSE SendAllStopsAtError(contacts, Tail(idx), sendResult)
             success == sendResult[i] = "sent"
         IN  [names |-> (IF success THEN <<contacts[i].name>> ELSE <<>>) \o rest.names,
              actions |-> << "emergency_sms_" \o sendResult[i] >> \o rest.actions,
              attempted |-> <<i>> \o rest.attempted]

RECURSIVE SendAll(_, _, _)
\* one sendEmergencyText per contact whose index is in idx (a sequence of indices)
SendAll(contacts, idx, sendResult) ==
    IF idx = <<>> THEN [names |-> <<>>, actions |-> <<>>, attempted |-> <<>>]
    ELSE LET i == Head(idx)
             rest == SendAll(contacts, Tail(idx), sendResult)
             success == sendResult[i] = "sent"
         IN  [names |-> (IF success THEN <<contacts[i].name>> ELSE <<>>) \o rest.names,
              actions |-> << "emergency_sms_" \o sendResult[i] >> \o rest.actions,
              attempted |-> <<i>> \o rest.attempted]

RECURSIVE FilterIdx(_, _, _)
\* the indices i >= from of contacts with isPrimary = primary, in profile order
FilterIdx(contacts, primary, from) ==
    IF from > Len(contacts) THEN <<>>
    ELSE (IF contacts[from].isPrimary = primary THEN <<from>> ELSE <<>>)
            \o FilterIdx(contacts, primary, from + 1)

\* notifyEmergencyContacts with the secondary contacts tried whatever the primaries did
notifyEmergencyContactsBothTiers(profile, isAvailable, sendResult) ==
    IF ~isAvailable
    THEN [names |-> <<>>, actions |-> << "sms_not_available" >>, attempted |-> <<>>,
          threw |-> FALSE]
    ELSE LET contacts == profile.emergencyContacts
             prim == SendAll(contacts, FilterIdx(contacts, TRUE, 1), sendResult)
             sec == SendAll(contacts, FilterIdx(contacts, FALSE, 1), sendResult)
         IN  [names |-> prim.names \o sec.names,
              actions |-> prim.actions \o sec.actions \o << "emergency_contacts_notified" >>,
              attempted |-> prim.attempted \o sec.attempted,
              threw |-> FALSE]

notifyEmergencyContacts(profile, isAvailable, sendResult) ==
    IF ~isAvailable
    THEN [names |-> <<>>, actions |-> << "sms_not_available" >>, attempted |-> <<>>,
          threw |-> FALSE]
    ELSE LET contacts == profile.emergencyContacts
             prim == SendAll(contacts, FilterIdx(contacts, TRUE, 1), sendResult)
             sec == IF prim.names = <<>>
                    THEN SendAll(contacts, FilterIdx(contacts, FALSE, 1), sendResult)
                    ELSE [names |-> <<>>, actions |-> <<>>, attempted |-> <<>>]
         IN  [names |-> prim.names \o sec.names,
              actions |-> prim.actions \o sec.actions \o << "emergency_contacts_notified" >>,
              attempted |-> prim.attempted \o sec.attempted,
              threw |-> FALSE]

(***************************************************************************)
(* App.renderCurrentScreen and the confirmation screen's local state,      *)
(* which is created when the screen mounts and lost when it unmounts.      *)
(***************************************************************************)
Screen(status) ==
    IF status \in {"confirmation", "in_progress", "follow_up"} THEN status ELSE "detection"

\* the confirmation screen's <<countdown, isConfirmed>> after the status becomes newStatus
Remount(oldStatus, newStatus, cd, ic) ==
    IF Screen(oldStatus) = "confirmation" /\ Screen(newStatus) = "confirmation"
    THEN <<cd, ic>>
    ELSE <<CountdownSeconds, FALSE>>

SetEmergencyStatus(newStatus) ==
    /\ emergencyStatus' = newStatus
    /\ countdown' = Remount(emergencyStatus, newStatus, countdown, isConfirmed)[1]
    /\ isConfirmed' = Remount(emergencyStatus, newStatus, countdown, isConfirmed)[2]

One(x) == SetToBag({x})

\* an initializeApp run that has not loaded yet
InitRun == [pc |-> "load"]

\* the closure a handler created by the current render holds
Closure(target) ==
    [target |-> target, currentStatus |-> emergencyStatus,
     emergencySession |-> emergencySession, medicalProfile |-> medicalProfile]

(***************************************************************************)
(* Button handlers.  Each awaits haptics and an announcement (or a dialog  *)
(* answer) before it calls onStatusChange / onCancel / onConfirm, which    *)
(* are the functions of the render in which the press happened.            *)
(***************************************************************************)
CanPress ==
    /\ appState = "active"
    /\ nEvents < MaxEvents

Press(target) ==
    /\ pending' = pending (+) One(Closure(target))
    /\ nEvents' = nEvents + 1
    /\ UNCHANGED << emergencyStatus, emergencySession, medicalProfile, appState, calls,
                    inits, resetTimers, storage, alerts, now, stateWrites, svcVars >>

\* handleEmergencyPress with the confirmation screen skipped
handleEmergencyPressSkipsConfirmation ==
    /\ CanPress /\ Screen(emergencyStatus) = "detection"
    /\ Press("in_progress")
    /\ UNCHANGED << countdown, isConfirmed >>

\* EmergencyDetectionScreen.handleEmergencyPress
handleEmergencyPress ==
    /\ CanPress /\ Screen(emergencyStatus) = "detection"
    /\ Press("confirmation")
    /\ UNCHANGED << countdown, isConfirmed >>

\* handleConfirm without `if (isConfirmed) return` and with the button never disabled
handleConfirmUnguarded ==
    /\ CanPress /\ Screen(emergencyStatus) = "confirmation"
    /\ isConfirmed' = TRUE
    /\ Press("in_progress")
    /\ UNCHANGED countdown

\* EmergencyConfirmationScreen.handleConfirm, from the button
handleConfirm ==
    /\ CanPress /\ Screen(emergencyStatus) = "confirmation"
    /\ ~isConfirmed
    /\ isConfirmed' = TRUE
    /\ Press("in_progress")
    /\ UNCHANGED countdown

\* EmergencyConfirmationScreen.handleCancel
ConfirmationHandleCancel ==
    /\ CanPress /\ Screen(emergencyStatus) = "confirmation"
    /\ ~isConfirmed
    /\ Press("cancelled")
    /\ UNCHANGED << countdown, isConfirmed >>

\* EmergencyConfirmationScreen: the interval tick that takes the countdown to 0
\* (the ticks before it change nothing but the number shown)
CountdownReachesZero ==
    /\ Screen(emergencyStatus) = "confirmation"
    /\ countdown > 0 /\ ~isConfirmed
    /\ nEvents < MaxEvents
    /\ countdown' = 0
    /\ isConfirmed' = TRUE
    /\ Press("in_progress")

\* EmergencyInProgressScreen.handleMoveToFollowUp
handleMoveToFollowUp ==
    /\ CanPress /\ Screen(emergencyStatus) = "in_progress"
    /\ Press("follow_up")
    /\ UNCHANGED << countdown, isConfirmed >>

\* EmergencyInProgressScreen.handleCancel, answered 'Yes, Cancel'
InProgressHandleCancel ==
    /\ CanPress /\ Screen(emergencyStatus) = "in_progress"
    /\ Press("cancelled")
    /\ UNCHANGED << countdown, isConfirmed >>

\* EmergencyFollowUpScreen.handleMarkCompleted
handleMarkCompleted ==
    /\ CanPress /\ Screen(emergencyStatus) = "follow_up"
    /\ Press("completed")
    /\ UNCHANGED << countdown, isConfirmed >>

\* EmergencyFollowUpScreen.handleNeedMoreHelp, answered 'Yes, continue emergency'
handleNeedMoreHelp ==
    /\ CanPress /\ Screen(emergencyStatus) = "follow_up"
    /\ Press("in_progress")
    /\ UNCHANGED << countdown, isConfirmed >>

\* EmergencyFollowUpScreen.handleStartNewEmergency, answered 'Start New Emergency'
handleStartNewEmergency ==
    /\ CanPress /\ Screen(emergencyStatus) = "follow_up"
    /\ Press("detection")
    /\ UNCHANGED << countdown, isConfirmed >>

(***************************************************************************)
(* App.handleStatusChange, up to its first await.                          *)
(***************************************************************************)
Call(p, pc, updatedSession) ==
    [newStatus |-> p.target, currentStatus |-> p.currentStatus, pc |-> pc,
     emergencySession |-> p.emergencySession,
     medicalProfile |-> p.medicalProfile, updatedSession |-> updatedSession,
     locationStatus |-> "unavailable",
     race |-> Null,                 \* history: how the location race went
     epoch |-> stateWrites + 1]     \* history: stateWrites after this call's latest write

\* NewSession without its 'emergency_initiated' entry
NewSessionWithoutAudit(profile, t) ==
    [id |-> SessionId(t),
     startTime |-> t,
     status |-> "confirmation",
     medicalProfileId |-> IF profile = Null THEN "unknown" ELSE profile.id,
     contactsNotified |-> <<>>,
     auditLog |-> <<>>,
     location |-> Undefined]

NewSession(profile, t) ==
    [id |-> SessionId(t),
     startTime |-> t,
     status |-> "confirmation",
     medicalProfileId |-> IF profile = Null THEN "unknown" ELSE profile.id,
     contactsNotified |-> <<>>,
     auditLog |-> << AuditEntry(t, "emergency_initiated", "Emergency button pressed") >>,
     location |-> Undefined]

\* TerminalSession without its 'emergency_<status>' entry
TerminalSessionWithoutAudit(session, newStatus, t) ==
    [session EXCEPT !.status = newStatus]

TerminalSession(session, newStatus, t) ==
    [session EXCEPT !.status = newStatus,
                    !.auditLog = Append(@, AuditEntry(t, "emergency_" \o newStatus,
                                                         "Emergency " \o newStatus))]

handleStatusChange(p) ==
    /\ SetEmergencyStatus(p.target)
    /\ stateWrites' = stateWrites + 1
    /\ IF p.target = "confirmation"
       THEN /\ emergencySession' = NewSession(p.medicalProfile, now)
            /\ calls' = calls (+) One(Call(p, "save", NewSession(p.medicalProfile, now)))
            /\ now' = now + 1
            /\ UNCHANGED resetTimers
       ELSE IF p.target = "in_progress"
       THEN /\ calls' = IF p.emergencySession # Null
                        THEN calls (+) One(Call(p, "location", Null))
                        ELSE calls
            /\ UNCHANGED << emergencySession, now, resetTimers >>
       ELSE IF p.target \in TerminalStatus
       THEN IF p.emergencySession # Null
            THEN /\ emergencySession' = TerminalSession(p.emergencySession, p.target, now)
                 /\ calls' = calls (+) One(Call(p, "save",
                                   TerminalSession(p.emergencySession, p.target, now)))
                 /\ UNCHANGED << now, resetTimers >>
            ELSE /\ resetTimers' = resetTimers + 1
                 /\ UNCHANGED << emergencySession, calls, now >>
       ELSE UNCHANGED << emergencySession, calls, now, resetTimers >>

\* a suspended handler resumes and calls onStatusChange(target)
Fire ==
    \E p \in BagToSet(pending) :
        /\ pending' = pending (-) One(p)
        /\ handleStatusChange(p)
        /\ UNCHANGED << medicalProfile, appState, inits, storage, alerts,
                        nEvents, svcVars >>

(***************************************************************************)
(* App.handleStatusChange, in_progress branch: the location race resolves. *)
(***************************************************************************)
ConfirmedSession(session, location, locationStatus, t) ==
    [session EXCEPT !.status = "in_progress",
                    !.location = IF location = Null THEN Undefined ELSE location,
                    !.auditLog = Append(@, AuditEntry(t, "emergency_confirmed",
                                     "Emergency confirmed - Location: " \o locationStatus))]

\* how the race went: which promise settled first, what the fetch resolved to if it
\* was first, and what it resolved to later if the timer was first (Null until then)
Race(winner, fetched) == [winner |-> winner, fetched |-> fetched, late |-> Null]

LocationResolved(c, location, locationStatus) ==
    LET updatedSession == ConfirmedSession(c.emergencySession, location, locationStatus, now)
        race == IF locationStatus = "timeout" THEN Race("timer", Null)
                ELSE Race("fetch", location)
    IN  IF c.medicalProfile # Null
        THEN /\ calls' = (calls (-) One(c)) (+)
                            One([c EXCEPT !.pc = "notify", !.updatedSession = updatedSession,
                                          !.locationStatus = locationStatus,
                                          !.race = race])
             /\ UNCHANGED << emergencySession, stateWrites >>
        ELSE /\ calls' = (calls (-) One(c)) (+)
                            One([c EXCEPT !.pc = "save", !.updatedSession = updatedSession,
                                          !.locationStatus = locationStatus,
                                          !.race = race,
                                          !.epoch = IF c.epoch = stateWrites
                                                    THEN stateWrites + 1 ELSE c.epoch])
             /\ emergencySession' = updatedSession
             /\ stateWrites' = stateWrites + 1

\* getLocationForEmergency resolves before the 5 s timer
LocationReturns ==
    \E c \in BagToSet(calls) :
        /\ c.pc = "location"
        /\ \E permissionGranted, servicesEnabled, primaryOk, fallbackOk \in BOOLEAN :
              LET fetch == getLocationForEmergency(permissionGranted, servicesEnabled,
                                                   primaryOk, fallbackOk, now)
              IN  LocationResolved(c, fetch.result,
                                   IF fetch.result # Null THEN "obtained"
                                   ELSE "permission_denied")
        /\ UNCHANGED << emergencyStatus, medicalProfile, appState, countdown, isConfirmed,
                        pending, inits, resetTimers, storage, alerts, now, nEvents, svcVars >>

\* LocationTimeout with the rejection left to the outer catch: the transition is
\* abandoned and the alert is raised
LocationTimeoutAborts ==
    \E c \in BagToSet(calls) :
        /\ c.pc = "location"
        /\ calls' = calls (-) One(c)
        /\ alerts' = alerts + 1
        /\ UNCHANGED << emergencyStatus, emergencySession, medicalProfile, appState,
                        countdown, isConfirmed, pending, inits, resetTimers, storage, now,
                        stateWrites, nEvents, svcVars >>

\* the 5 s timer rejects first; the fetch keeps running and its late result is dropped
LocationTimeout ==
    \E c \in BagToSet(calls) :
        /\ c.pc = "location"
        /\ LocationResolved(c, Null, "timeout")
        /\ UNCHANGED << emergencyStatus, medicalProfile, appState, countdown, isConfirmed,
                        pending, inits, resetTimers, storage, alerts, now, nEvents, svcVars >>

\* LateLocationArrives with the late result put into the session
LateLocationApplied ==
    \E c \in BagToSet(calls) :
        /\ c.race # Null /\ c.race.winner = "timer" /\ c.race.late = Null
        /\ calls' = (calls (-) One(c)) (+)
                        One([c EXCEPT !.race.late = LocationData(now),
                                      !.updatedSession.location = LocationData(now)])
        /\ UNCHANGED << emergencyStatus, emergencySession, medicalProfile, appState,
                        countdown, isConfirmed, pending, inits, resetTimers, storage,
                        alerts, now, stateWrites, nEvents, svcVars >>

\* after the timer has won, getLocationForEmergency resolves with a position while
\* the call is still running: the race is settled, nothing reads the result
LateLocationArrives ==
    \E c \in BagToSet(calls) :
        /\ c.race # Null /\ c.race.winner = "timer" /\ c.race.late = Null
        /\ calls' = (calls (-) One(c)) (+) One([c EXCEPT !.race.late = LocationData(now)])
        /\ UNCHANGED << emergencyStatus, emergencySession, medicalProfile, appState,
                        countdown, isConfirmed, pending, inits, resetTimers, storage,
                        alerts, now, stateWrites, nEvents, svcVars >>

(***************************************************************************)
(* App.handleStatusChange, in_progress branch: the contact notifier        *)
(* returns.                                                                *)
(***************************************************************************)
NotifiedSession(session, notifiedContacts, locationStatus, t) ==
    [session EXCEPT !.contactsNotified = notifiedContacts,
                    !.auditLog = Append(@, AuditEntry(t, "contacts_notified",
                                     "Notified " \o ToString(Len(notifiedContacts))
                                        \o " contacts - Location status: " \o locationStatus))]

NotifierReturns ==
    \E c \in BagToSet(calls) :
        /\ c.pc = "notify"
        /\ \E isAvailable \in BOOLEAN,
              sendResult \in [1..Len(c.medicalProfile.emergencyContacts) -> SendResults] :
              LET r == notifyEmergencyContacts(c.medicalProfile, isAvailable, sendResult)
                  updatedSession == NotifiedSession(c.updatedSession, r.names,
                                                    c.locationStatus, now)
              IN  /\ emergencySession' = updatedSession
                  /\ stateWrites' = stateWrites + 1
                  /\ calls' = (calls (-) One(c)) (+)
                                 One([c EXCEPT !.pc = "save",
                                               !.updatedSession = updatedSession,
                                               !.epoch = IF c.epoch = stateWrites
                                                         THEN stateWrites + 1 ELSE c.epoch])
        /\ UNCHANGED << emergencyStatus, medicalProfile, appState, countdown, isConfirmed,
                        pending, inits, resetTimers, storage, alerts, now, nEvents, svcVars >>

(***************************************************************************)
(* App.handleStatusChange: await SecureStorage.saveEmergencySession(...)   *)
(* returns or throws, and the call runs to its end.                        *)
(***************************************************************************)
SaveReturns ==
    \E c \in BagToSet(calls) :
        /\ c.pc = "save"
        /\ storage' = saveEmergencySession(storage, c.updatedSession)
        /\ calls' = calls (-) One(c)
        /\ resetTimers' = IF c.newStatus \in TerminalStatus
                          THEN resetTimers + 1 ELSE resetTimers
        /\ UNCHANGED << emergencyStatus, emergencySession, medicalProfile, appState,
                        countdown, isConfirmed, pending, inits, alerts, now, stateWrites,
                        nEvents, svcVars >>

\* SaveThrows with the in-memory session put back to the one the call started from
SaveThrowsRollsBack ==
    \E c \in BagToSet(calls) :
        /\ c.pc = "save"
        /\ calls' = calls (-) One(c)
        /\ alerts' = alerts + 1
        /\ emergencySession' = c.emergencySession
        /\ SetEmergencyStatus(c.currentStatus)
        /\ stateWrites' = stateWrites + 1
        /\ UNCHANGED << medicalProfile, appState, pending, inits, resetTimers,
                        storage, now, nEvents, svcVars >>

\* storeData throws: saveEmergencySession rethrows, the catch raises the alert
SaveThrows ==
    \E c \in BagToSet(calls) :
        /\ c.pc = "save"
        /\ calls' = calls (-) One(c)
        /\ alerts' = alerts + 1
        /\ storage' \in storeDataThrows(storage, EMERGENCY_SESSION_KEY,
                                         StringifySession(c.updatedSession))
        /\ UNCHANGED << emergencyStatus, emergencySession, medicalProfile, appState,
                        countdown, isConfirmed, pending, inits, resetTimers,
                        now, stateWrites, nEvents, svcVars >>

\* the setTimeout(..., 3000) of a terminal transition fires
GraceTimerFires ==
    /\ resetTimers > 0
    /\ resetTimers' = resetTimers - 1
    /\ SetEmergencyStatus("detection")
    /\ emergencySession' = Null
    /\ stateWrites' = stateWrites + 1
    /\ UNCHANGED << medicalProfile, appState, pending, calls, inits, storage,
                    alerts, now, nEvents, svcVars >>

(***************************************************************************)
(* App.initializeApp: the two loads, then the state updates.               *)
(***************************************************************************)
InitializeLoads ==
    \E r \in BagToSet(inits) :
        /\ r.pc = "load"
        /\ LET p == getMedicalProfile(storage)
               s == getEmergencySession(p.st)
           IN  IF p.threw
               THEN /\ storage' = p.st
                    /\ inits' = inits (-) One(r)
               ELSE /\ storage' = s.st
                    /\ inits' = IF s.threw THEN inits (-) One(r)
                                ELSE (inits (-) One(r)) (+)
                                        One([pc |-> "apply", profile |-> p.val,
                                             session |-> s.val])
        /\ UNCHANGED << emergencyStatus, emergencySession, medicalProfile, appState,
                        countdown, isConfirmed, pending, calls, resetTimers,
                        alerts, now, stateWrites, nEvents, svcVars >>

\* IsActiveSession without the test of the status
IsAnySession(session) ==
    session # Null

IsActiveSession(session) ==
    session # Null /\ session.status \notin TerminalStatus

InitializeApplies ==
    \E r \in BagToSet(inits) :
        /\ r.pc = "apply"
        /\ inits' = inits (-) One(r)
        /\ medicalProfile' = r.profile
        /\ IF IsActiveSession(r.session)
           THEN /\ emergencySession' = r.session
                /\ SetEmergencyStatus(r.session.status)
           ELSE /\ emergencySession' = Null
                /\ SetEmergencyStatus("detection")
        /\ stateWrites' = stateWrites + 1
        /\ UNCHANGED << appState, pending, calls, resetTimers, storage, alerts,
                        now, nEvents, svcVars >>

\* AppState 'change' listener: setAppState re-runs the effect, hence initializeApp
handleAppStateChange ==
    /\ nEvents < MaxEvents
    /\ nEvents' = nEvents + 1
    /\ appState' = IF appState = "active" THEN "background" ELSE "active"
    /\ inits' = inits (+) One(InitRun)
    /\ UNCHANGED << emergencyStatus, emergencySession, medicalProfile, countdown,
                    isConfirmed, pending, calls, resetTimers, storage, alerts,
                    now, stateWrites, svcVars >>

(***************************************************************************)
(* Initial state: a process that has just started.  The stores hold what   *)
(* an earlier run of the app left there: no medical profile or one, and no *)
(* session, a session left in confirmation or in_progress, or a session    *)
(* that was completed.                                                     *)
(* The mount effect has started initializeApp.                             *)
(***************************************************************************)
EarlierConfirmation == NewSession(Null, 0)
EarlierInProgress == ConfirmedSession(EarlierConfirmation, LocationData(0), "obtained", 0)
EarlierCompleted == TerminalSession(EarlierInProgress, "completed", 0)

InitialSessionData ==
    {Null, StringifySession(EarlierConfirmation), StringifySession(EarlierInProgress),
     StringifySession(EarlierCompleted)}
InitialProfileData == {Null, StringifyProfile(SampleProfile)}

Init ==
    /\ emergencyStatus = "detection"
    /\ emergencySession = Null
    /\ medicalProfile = Null
    /\ appState = "active"
    /\ countdown = CountdownSeconds
    /\ isConfirmed = FALSE
    /\ pending = EmptyBag
    /\ calls = EmptyBag
    /\ inits = One(InitRun)
    /\ resetTimers = 0
    /\ \E profileData \in InitialProfileData, sessionData \in InitialSessionData :
          storage = [secure |-> [k \in DataKeys |->
                                    IF k = MEDICAL_PROFILE_KEY THEN profileData
                                    ELSE IF k = EMERGENCY_SESSION_KEY THEN sessionData
                                    ELSE Null],
                     async |-> [k \in DataKeys |-> Null],
                     encKey |-> [k \in DataKeys |-> 0],
                     keyGen |-> 0]
    /\ alerts = 0
    /\ now = 1
    /\ stateWrites = 0
    /\ nEvents = 0
    /\ request = Null
    /\ response = Null
    /\ written = Null
    /\ auditCalls = EmptyBag
    /\ nOps = 0

Next ==
    \/ handleEmergencyPress
    \/ handleConfirm
    \/ ConfirmationHandleCancel
    \/ CountdownReachesZero
    \/ handleMoveToFollowUp
    \/ InProgressHandleCancel
    \/ handleMarkCompleted
    \/ handleNeedMoreHelp
    \/ handleStartNewEmergency
    \/ Fire
    \/ LocationReturns
    \/ LocationTimeout
    \/ LateLocationArrives
    \/ NotifierReturns
    \/ SaveReturns
    \/ SaveThrows
    \/ GraceTimerFires
    \/ InitializeLoads
    \/ InitializeApplies
    \/ handleAppStateChange

Spec == Init /\ [][Next]_vars

(***************************************************************************)
(* Properties.                                                             *)
(***************************************************************************)
\* the session a load from the store returns
PersistedSession == getEmergencySession(storage).val

\* the serialized session under the session key, before any parsing
StoredSessionData == retrieveData(storage, EMERGENCY_SESSION_KEY).val

\* this step is the suspended handler p calling onStatusChange(p.target)
Fires(p) == pending' = pending (-) One(p)

\* this step takes the suspended handleStatusChange call c out of the bag
Leaves(c) == CopiesIn(c, calls') < CopiesIn(c, calls)

\* d is the call c with nothing but the history of its location race changed
SameCallLater(c, d) == d # c /\ [d EXCEPT !.race = c.race] = c

\* this step resumes the suspended handleStatusChange call c
Resumes(c) ==
    /\ Leaves(c)
    /\ ~ \E d \in BagToSet(calls') :
            CopiesIn(d, calls') > CopiesIn(d, calls) /\ SameCallLater(c, d)

\* this step suspends the handleStatusChange call d
Suspends(d) == CopiesIn(d, calls') > CopiesIn(d, calls)

LastEntry(session) == session.auditLog[Len(session.auditLog)]

(***************************************************************************)
(* C1: the status machine's edges.                                         *)
(***************************************************************************)
ClaimedEdges ==
    { <<"detection", "confirmation">>, <<"confirmation", "in_progress">>,
      <<"in_progress", "follow_up">>, <<"follow_up", "completed">>,
      <<"confirmation", "cancelled">>, <<"in_progress", "cancelled">>,
      <<"follow_up", "cancelled">> }

\* what the screens offer: the status a screen was rendered for, and the status
\* its button asks for
OfferedEdges ==
    { <<"detection", "confirmation">>, <<"completed", "confirmation">>,
      <<"cancelled", "confirmation">>,
      <<"confirmation", "in_progress">>, <<"confirmation", "cancelled">>,
      <<"in_progress", "follow_up">>, <<"in_progress", "cancelled">>,
      <<"follow_up", "completed">>, <<"follow_up", "in_progress">>,
      <<"follow_up", "detection">> }

\* a step that changes the status is a UI action taking the status to the one it
\* asks for along one of `edges`, the grace timer taking it to detection, or
\* initializeApp
StatusChangesOnlyAlong(edges) ==
    /\ \A p \in BagToSet(pending) :
          Fires(p) => /\ emergencyStatus' = p.target
                      /\ <<p.currentStatus, p.target>> \in edges
    /\ (emergencyStatus' # emergencyStatus /\ pending' = pending /\ inits' = inits)
          => /\ resetTimers' = resetTimers - 1
             /\ emergencyStatus' = "detection"

\* C1 as claimed: a UI action changes the status only along detection->confirmation,
\* confirmation->in_progress, in_progress->follow_up, follow_up->completed and
\* {confirmation, in_progress, follow_up}->cancelled, and the only other change is
\* the grace timer's return to detection; in particular there is no
\* follow_up->in_progress and no follow_up->detection.
C1_ClaimedEdgesOnly == [][StatusChangesOnlyAlong(ClaimedEdges)]_vars

\* C1, amended: a UI action takes the status from the one its screen was rendered
\* for to the one it asks for only along the claimed edges (follow_up->cancelled is
\* not offered), follow_up->in_progress ('I need more help'), follow_up->detection
\* ('Start new emergency') and {completed, cancelled}->confirmation (the emergency
\* button during the grace delay); the only other changes of the status are the
\* grace timer's return to detection and initializeApp.
C1_OfferedEdgesOnly == [][StatusChangesOnlyAlong(OfferedEdges)]_vars

\* 'I need more help' has taken the status from follow_up back to in_progress
C1_Witness ==
    /\ emergencyStatus = "in_progress"
    /\ \E c \in BagToSet(calls) :
          c.currentStatus = "follow_up" /\ c.newStatus = "in_progress"

(***************************************************************************)
(* C2: confirmation -> in_progress whatever location and notifier do.      *)
(***************************************************************************)
\* C2: a confirmation made on the confirmation screen always has a session; a
\* transition into in_progress with a session sets the status to in_progress and
\* is suspended at the location fetch; whatever the fetch (data,
\* nothing, the 5 s timeout) and the notifier (some sent, none sent, SMS
\* unavailable) answer, the call is never abandoned and raises no alert, goes on
\* to its save with a session of status in_progress that it has put in memory,
\* and a save that returns has persisted that session; unless another writer
\* came in between, the status in memory is in_progress and the session in memory
\* is the call's when the call ends.
C2_InProgressWhateverTheOutcome ==
    [][ /\ \A p \in BagToSet(pending) :
              (Fires(p) /\ p.target = "in_progress" /\ p.currentStatus = "confirmation")
                 => p.emergencySession # Null
        /\ \A p \in BagToSet(pending) :
              (Fires(p) /\ p.target = "in_progress" /\ p.emergencySession # Null)
                 => /\ emergencyStatus' = "in_progress"
                    /\ \E d \in BagToSet(calls') :
                          /\ Suspends(d)
                          /\ d.pc = "location" /\ d.newStatus = "in_progress"
        /\ \A c \in BagToSet(calls) :
              (Resumes(c) /\ c.newStatus = "in_progress" /\ c.pc \in {"location", "notify"})
                 => /\ alerts' = alerts
                    /\ emergencyStatus' = emergencyStatus
                    /\ \E d \in BagToSet(calls') :
                          /\ Suspends(d)
                          /\ d.pc \in (IF c.pc = "location" /\ c.medicalProfile # Null
                                       THEN {"notify"} ELSE {"save"})
                          /\ d.updatedSession.status = "in_progress"
                          /\ d.updatedSession.id = c.emergencySession.id
                          /\ d.pc = "save" => emergencySession' = d.updatedSession
        /\ \A c \in BagToSet(calls) :
              (Resumes(c) /\ c.newStatus = "in_progress" /\ c.pc = "save")
                 => /\ c.updatedSession.status = "in_progress"
                    /\ alerts' = alerts => PersistedSession' = c.updatedSession
                    /\ c.epoch = stateWrites
                          => /\ emergencyStatus' = "in_progress"
                             /\ emergencySession' = c.updatedSession
      ]_vars

\* a confirmed emergency whose location fetch timed out and whose contacts could
\* not be reached is in progress, in memory and in the store
C2_Witness ==
    /\ emergencyStatus = "in_progress"
    /\ emergencySession # Null
    /\ emergencySession.status = "in_progress"
    /\ emergencySession.location = Undefined
    /\ emergencySession.contactsNotified = <<>>
    /\ Len(emergencySession.auditLog) = 3
    /\ emergencySession.auditLog[2].details = "Emergency confirmed - Location: timeout"
    /\ emergencySession.auditLog[3].action = "contacts_notified"
    /\ PersistedSession = emergencySession
    /\ calls = EmptyBag
    /\ alerts = 0

(***************************************************************************)
(* C3: detection -> confirmation creates and stores the session.           *)
(***************************************************************************)
\* C3: a transition into confirmation puts in memory a new session with status
\* 'confirmation', the id emergency_<its start time>, no contacts notified, no
\* location and an audit log of exactly one 'emergency_initiated' entry, and its
\* save, when it returns, has written that session under the key
\* emergency_session and has left the stored medical profile alone.
C3_ConfirmationCreatesSession ==
    [][ /\ \A p \in BagToSet(pending) :
              (Fires(p) /\ p.target = "confirmation")
                 => /\ emergencyStatus' = "confirmation"
                    /\ emergencySession' # Null
                    /\ emergencySession'.status = "confirmation"
                    /\ emergencySession'.startTime = now
                    /\ emergencySession'.id = "emergency_" \o ToString(now)
                    /\ emergencySession'.contactsNotified = <<>>
                    /\ emergencySession'.location = Undefined
                    /\ Len(emergencySession'.auditLog) = 1
                    /\ emergencySession'.auditLog[1].action = "emergency_initiated"
                    /\ \E d \in BagToSet(calls') :
                          /\ Suspends(d)
                          /\ d.pc = "save" /\ d.updatedSession = emergencySession'
        /\ \A c \in BagToSet(calls) :
              (Resumes(c) /\ c.newStatus = "confirmation" /\ alerts' = alerts)
                 => /\ c.pc = "save"
                    /\ PersistedSession' = c.updatedSession
                    /\ \/ storage'.secure[EMERGENCY_SESSION_KEY] # Null
                       \/ storage'.async[EMERGENCY_SESSION_KEY] # Null
                    /\ storage'.secure[MEDICAL_PROFILE_KEY] = storage.secure[MEDICAL_PROFILE_KEY]
                    /\ storage'.async[MEDICAL_PROFILE_KEY] = storage.async[MEDICAL_PROFILE_KEY]
      ]_vars

\* the emergency button was pressed in this run and the new session is in
\* memory and in the store
C3_Witness ==
    /\ emergencyStatus = "confirmation"
    /\ emergencySession # Null
    /\ emergencySession.startTime >= 1
    /\ emergencySession.auditLog[1].action = "emergency_initiated"
    /\ PersistedSession = emergencySession
    /\ calls = EmptyBag

(***************************************************************************)
(* C4: in_progress -> follow_up.                                           *)
(***************************************************************************)
\* C4 as claimed: the transition in_progress -> follow_up of a session makes no
\* location or notifier call, sets the session's status to follow_up, appends an
\* entry to its audit log and persists it, so that the persisted status is
\* follow_up when the transition has completed.
C4_FollowUpRecorded ==
    [][ \A p \in BagToSet(pending) :
           (Fires(p) /\ p.target = "follow_up" /\ p.currentStatus = "in_progress"
                     /\ p.emergencySession # Null)
              => /\ \A d \in BagToSet(calls') : ~Suspends(d)
                 /\ emergencySession' # Null
                 /\ emergencySession'.status = "follow_up"
                 /\ Len(emergencySession'.auditLog) = Len(p.emergencySession.auditLog) + 1
                 /\ PersistedSession' # Null
                 /\ PersistedSession'.status = "follow_up"
      ]_vars

(***************************************************************************)
(* C5: transitions into completed and cancelled.                           *)
(***************************************************************************)
\* C5: a transition into completed or cancelled with a session sets the status,
\* puts in memory that session with the terminal status and with one more audit
\* entry, 'emergency_completed' or 'emergency_cancelled', and saves it; the save
\* that returns has persisted the session with its terminal status and schedules
\* one reset; the reset, when its timer fires, sets the status to detection and
\* empties the session slot.
C5_TerminalTransition ==
    [][ /\ \A p \in BagToSet(pending) :
              (Fires(p) /\ p.target \in {"completed", "cancelled"}
                        /\ p.emergencySession # Null)
                 => /\ emergencyStatus' = p.target
                    /\ emergencySession' # Null
                    /\ emergencySession'.status = p.target
                    /\ emergencySession'.id = p.emergencySession.id
                    /\ Len(emergencySession'.auditLog) = Len(p.emergencySession.auditLog) + 1
                    /\ SubSeq(emergencySession'.auditLog, 1, Len(p.emergencySession.auditLog))
                          = p.emergencySession.auditLog
                    /\ LastEntry(emergencySession').action
                          = (IF p.target = "completed" THEN "emergency_completed"
                             ELSE "emergency_cancelled")
                    /\ \E d \in BagToSet(calls') :
                          /\ Suspends(d)
                          /\ d.pc = "save" /\ d.updatedSession = emergencySession'
                    /\ resetTimers' = resetTimers
        /\ \A c \in BagToSet(calls) :
              (Resumes(c) /\ c.newStatus \in {"completed", "cancelled"} /\ alerts' = alerts)
                 => /\ c.pc = "save"
                    /\ PersistedSession' = c.updatedSession
                    /\ PersistedSession'.status = c.newStatus
                    /\ resetTimers' = resetTimers + 1
        /\ resetTimers' < resetTimers
              => /\ resetTimers' = resetTimers - 1
                 /\ emergencyStatus' = "detection"
                 /\ emergencySession' = Null
      ]_vars

\* an emergency was cancelled in this run: the cancelled session is in the store,
\* the reset has run, and the app is back at detection with an empty slot
C5_Witness ==
    /\ emergencyStatus = "detection"
    /\ emergencySession = Null
    /\ resetTimers = 0
    /\ calls = EmptyBag /\ pending = EmptyBag /\ inits = EmptyBag
    /\ alerts = 0
    /\ PersistedSession # Null
    /\ PersistedSession.status = "cancelled"
    /\ LastEntry(PersistedSession).action = "emergency_cancelled"
    /\ LastEntry(PersistedSession).timestamp >= 1

(***************************************************************************)
(* C6: what initializeApp resumes at app start.                            *)
(***************************************************************************)
\* C6: when the initializeApp of the app start has run (and nothing else has
\* happened yet), a persisted session whose status is neither completed nor
\* cancelled is the session in memory and its status is the status in memory;
\* with no persisted session, or a completed or cancelled one, the status is
\* detection and the session slot is empty.
C6_ResumeAtStart ==
    (nEvents = 0 /\ inits = EmptyBag)
       => IF StoredSessionData # Null
             /\ ParseSession(StoredSessionData).status \notin {"completed", "cancelled"}
          THEN /\ emergencySession = ParseSession(StoredSessionData)
               /\ emergencyStatus = ParseSession(StoredSessionData).status
          ELSE /\ emergencyStatus = "detection"
               /\ emergencySession = Null

\* the app has started on a persisted in_progress session and shows it
C6_Witness ==
    /\ nEvents = 0 /\ inits = EmptyBag
    /\ emergencyStatus = "in_progress"
    /\ emergencySession # Null
    /\ emergencySession.location # Undefined
    /\ StoredSessionData # Null

(***************************************************************************)
(* C7: what getEmergencySession returns.                                   *)
(***************************************************************************)
\* C7 as claimed: getEmergencySession returns no session whenever nothing is
\* persisted or the persisted session's status is completed or cancelled.
C7_LoadHidesTerminal ==
    (\/ StoredSessionData = Null
     \/ ParseSession(StoredSessionData).status \in {"completed", "cancelled"})
       => getEmergencySession(storage).val = Null

\* C7, amended: getEmergencySession returns no session exactly when nothing is
\* stored under the session key, and otherwise the session saved last, whatever
\* its status: the save of a completed or cancelled session is followed by a load
\* that returns that session, and the reset after the grace delay leaves the
\* store as it is.
C7_LoadReturnsWhatWasSaved ==
    [][ /\ getEmergencySession(storage').val = Null
           <=> /\ storage'.secure[EMERGENCY_SESSION_KEY] = Null
               /\ storage'.async[EMERGENCY_SESSION_KEY] = Null
        /\ ~getEmergencySession(storage').threw
        /\ \A c \in BagToSet(calls) :
              (Resumes(c) /\ c.pc = "save" /\ alerts' = alerts)
                 => getEmergencySession(storage').val = c.updatedSession
        /\ resetTimers' < resetTimers => storage' = storage
      ]_vars

\* an emergency was completed in this run and the grace delay is over: the slot
\* in memory is empty, and a load returns the completed session
C7_Witness ==
    /\ emergencyStatus = "detection"
    /\ emergencySession = Null
    /\ resetTimers = 0
    /\ calls = EmptyBag /\ pending = EmptyBag /\ inits = EmptyBag
    /\ getEmergencySession(storage).val # Null
    /\ getEmergencySession(storage).val.status = "completed"
    /\ LastEntry(getEmergencySession(storage).val).timestamp >= 1

(***************************************************************************)
(* C8: one active session.                                                 *)
(***************************************************************************)
\* C8 as claimed: a session with a new id comes into memory only by a
\* transition into confirmation, and no transition into confirmation happens
\* while the session in memory or the persisted session has a status other than
\* completed and cancelled.
C8_NoNewSessionOverActive ==
    [][ /\ ( /\ emergencySession' # Null
             /\ emergencySession'.id = "emergency_" \o ToString(now)
             /\ emergencySession' # emergencySession )
              => \E p \in BagToSet(pending) : Fires(p) /\ p.target = "confirmation"
        /\ \A p \in BagToSet(pending) :
              (Fires(p) /\ p.target = "confirmation")
                 => /\ \/ emergencySession = Null
                       \/ emergencySession.status \in {"completed", "cancelled"}
                    /\ \/ PersistedSession = Null
                       \/ PersistedSession.status \in {"completed", "cancelled"}
      ]_vars

(***************************************************************************)
(* C9: serialized transitions.                                             *)
(***************************************************************************)
\* the session a suspended handleStatusChange call works on
CallSession(c) ==
    IF c.newStatus = "confirmation" THEN c.updatedSession ELSE c.emergencySession

\* C9 as claimed: no handleStatusChange call that reads or writes a session
\* starts while an earlier call on that session is suspended at its location
\* fetch, contact notification or save.
C9_Serialized ==
    [][ \A p \in BagToSet(pending) :
           (Fires(p) /\ p.target \in {"in_progress", "completed", "cancelled"}
                     /\ p.emergencySession # Null)
              => \A c \in BagToSet(calls) :
                    \/ CallSession(c) = Null
                    \/ CallSession(c).id # p.emergencySession.id
      ]_vars

(***************************************************************************)
(* C10: a save that fails.                                                 *)
(***************************************************************************)
\* C10: when the save of a transition throws, one alert is raised, the status and
\* the session in memory are left as they are, and no reset is scheduled; unless
\* another writer came in between, what is left in memory is the transition's new
\* status and new session.
C10_SaveFailureKeepsNewState ==
    [][ \A c \in BagToSet(calls) :
           (Resumes(c) /\ c.pc = "save" /\ alerts' # alerts)
              => /\ alerts' = alerts + 1
                 /\ emergencyStatus' = emergencyStatus
                 /\ emergencySession' = emergencySession
                 /\ resetTimers' = resetTimers
                 /\ c.epoch = stateWrites
                       => /\ emergencyStatus' = c.newStatus
                          /\ emergencySession' = c.updatedSession
      ]_vars

\* the save of a new session has failed: the alert was raised, the new session
\* and its status are in memory, and the store holds no session
C10_Witness ==
    /\ alerts = 1
    /\ emergencyStatus = "confirmation"
    /\ emergencySession # Null
    /\ emergencySession.status = "confirmation"
    /\ emergencySession.startTime >= 1
    /\ StoredSessionData = Null
    /\ calls = EmptyBag

(***************************************************************************)
(* The size-routed store on its own.  storeData, retrieveData and          *)
(* removeData are private to SecureStorage; here they are called in any    *)
(* order, on any key, with JSON texts on either side of the threshold.     *)
(* Every platform call succeeds.  written[key] records the text of the     *)
(* latest storeData on the key, Null after a removeData or before any.     *)
(***************************************************************************)
\* bound: storeData and removeData calls per behaviour
MaxStoreOps == 4

\* the number of 'contacts_notified' entries that take LongSession over the threshold
LongSessionEntries == 10

RECURSIVE Repeat(_, _)
Repeat(e, n) == IF n = 0 THEN <<>> ELSE <<e>> \o Repeat(e, n - 1)

\* a session whose audit trail has grown past the SecureStore limit
LongSession ==
    [EarlierInProgress EXCEPT
        !.auditLog = @ \o Repeat(AuditEntry(0, "contacts_notified",
                                    "Notified 0 contacts - Location status: obtained"),
                                 LongSessionEntries)]

\* a string of n characters
Text(n, content) == [len |-> n, json |-> content]

StoreSessions == {EarlierConfirmation, EarlierInProgress, LongSession}

StoreValues ==
    {StringifySession(s) : s \in StoreSessions}
        \cup {StringifyProfile(SampleProfile),
              Text(SECURE_STORE_SIZE_LIMIT, "a"), Text(SECURE_STORE_SIZE_LIMIT + 1, "b")}

EmptyStorage ==
    [secure |-> [k \in DataKeys |-> Null],
     async |-> [k \in DataKeys |-> Null],
     encKey |-> [k \in DataKeys |-> 0],
     keyGen |-> 0]

\* the App component is not running
AppAtRest ==
    /\ emergencyStatus = "detection"
    /\ emergencySession = Null
    /\ medicalProfile = Null
    /\ appState = "active"
    /\ countdown = CountdownSeconds
    /\ isConfirmed = FALSE
    /\ pending = EmptyBag
    /\ calls = EmptyBag
    /\ inits = EmptyBag
    /\ resetTimers = 0
    /\ alerts = 0
    /\ now = 1
    /\ stateWrites = 0
    /\ nEvents = 0

InitStore ==
    /\ AppAtRest
    /\ storage = EmptyStorage
    /\ request = Null
    /\ response = Null
    /\ written = [k \in DataKeys |-> Null]
    /\ auditCalls = EmptyBag
    /\ nOps = 0

StoreSet ==
    \E key \in DataKeys, data \in StoreValues :
        /\ nOps < MaxStoreOps
        /\ nOps' = nOps + 1
        /\ storage' = storeData(storage, key, data)
        /\ written' = [written EXCEPT ![key] = data]
        /\ request' = [op |-> "storeData", key |-> key, data |-> data]
        /\ response' = Null
        /\ UNCHANGED << appVars, auditCalls >>

StoreRemove ==
    \E key \in DataKeys :
        /\ nOps < MaxStoreOps
        /\ nOps' = nOps + 1
        /\ storage' = removeData(storage, key)
        /\ written' = [written EXCEPT ![key] = Null]
        /\ request' = [op |-> "removeData", key |-> key, data |-> Null]
        /\ response' = Null
        /\ UNCHANGED << appVars, auditCalls >>

StoreGet ==
    \E key \in DataKeys :
        /\ storage' = retrieveData(storage, key).st
        /\ response' = retrieveData(storage, key).val
        /\ request' = [op |-> "retrieveData", key |-> key, data |-> Null]
        /\ UNCHANGED << appVars, written, auditCalls, nOps >>

NextStore ==
    \/ StoreSet
    \/ StoreRemove
    \/ StoreGet

SpecStore == InitStore /\ [][NextStore]_vars

(***************************************************************************)
(* C11: whatever storeData and removeData calls were made on a key, in any *)
(* order and with values at most or more than 1536 characters long,        *)
(* retrieveData returns the value of the most recent storeData, or null if *)
(* the most recent call was a removeData or there was none; and a session  *)
(* or profile parsed from what it returns equals the one that was saved,   *)
(* an absent location included.                                            *)
(***************************************************************************)
C11_GetReturnsLatestSet ==
    (request # Null /\ request.op = "retrieveData") =>
        /\ response = written[request.key]
        /\ \A s \in StoreSessions :
              written[request.key] = StringifySession(s) => ParseSession(response) = s
        /\ written[request.key] = StringifyProfile(SampleProfile)
              => ParseProfile(response) = SampleProfile

\* a value of more than 1536 characters is read back, from the encrypted store,
\* under a key whose SecureStore copy has been replaced, after a removeData
C11_Witness ==
    /\ request # Null /\ request.op = "retrieveData"
    /\ response = StringifySession(LongSession)
    /\ ParseSession(response).location # Undefined
    /\ storage.secure[request.key] = Null
    /\ storage.keyGen >= 2
    /\ nOps >= 3

(***************************************************************************)
(* C12: after a storeData(key, value) has completed, exactly one of the    *)
(* two backing stores holds a value for the key: SecureStore holds the     *)
(* value if it has at most 1536 characters and the encrypted store holds   *)
(* nothing, and otherwise the encrypted store holds it and SecureStore     *)
(* holds nothing.                                                          *)
(***************************************************************************)
C12_ExactlyOneStoreHoldsTheKey ==
    (request # Null /\ request.op = "storeData") =>
        IF request.data.len <= SECURE_STORE_SIZE_LIMIT
        THEN /\ storage.secure[request.key] = request.data
             /\ storage.async[request.key] = Null
        ELSE /\ storage.secure[request.key] = Null
             /\ storage.async[request.key] # Null
             /\ decrypt(storage.async[request.key], storage.encKey[request.key])
                    = request.data

(***************************************************************************)
(* The audit log under one caller at a time: every addAuditEntry call has  *)
(* returned before the next call of SecureStorage starts, and every        *)
(* platform call succeeds.  The entries are told apart by their timestamp. *)
(* written is the sequence of the entries appended since the log was last  *)
(* empty.                                                                  *)
(***************************************************************************)
\* bound: addAuditEntry calls per behaviour
MaxAppends == 52

SavedEntry(t) ==
    AuditEntry(t, "emergency_session_saved",
               "Session emergency_0 saved with status: in_progress")

InitAuditLog ==
    /\ AppAtRest
    /\ storage = EmptyStorage
    /\ request = Null
    /\ response = Null
    /\ written = <<>>
    /\ auditCalls = EmptyBag
    /\ nOps = 0

AddAuditEntry ==
    /\ nOps < MaxAppends
    /\ nOps' = nOps + 1
    /\ storage' = addAuditEntry(storage, SavedEntry(nOps + 1))
    /\ written' = Append(written, SavedEntry(nOps + 1))
    /\ request' = [op |-> "addAuditEntry"]
    /\ response' = Null
    /\ UNCHANGED << appVars, auditCalls >>

GetAuditLog ==
    /\ storage' = retrieveData(storage, AUDIT_LOG_KEY).st
    /\ response' = getAuditLog(storage)
    /\ request' = [op |-> "getAuditLog"]
    /\ UNCHANGED << appVars, written, auditCalls, nOps >>

ClearAuditLog ==
    /\ storage' = clearAuditLog(storage)
    /\ written' = <<>>
    /\ request' = [op |-> "clearAuditLog"]
    /\ response' = Null
    /\ UNCHANGED << appVars, auditCalls, nOps >>

NextAuditLog ==
    \/ AddAuditEntry
    \/ GetAuditLog
    \/ ClearAuditLog

SpecAuditLog == InitAuditLog /\ [][NextAuditLog]_vars

(***************************************************************************)
(* C13: after n addAuditEntry calls made one after the other on an empty   *)
(* log, getAuditLog returns the last min(n, 50) entries appended, in the   *)
(* order of their insertion; it never returns more than 50 entries.        *)
(***************************************************************************)
C13_LastFiftyInOrder ==
    (request # Null /\ request.op = "getAuditLog") =>
        LET n == Len(written)
            k == Len(response)
        IN  /\ k = (IF n < AuditLogCap THEN n ELSE AuditLogCap)
            /\ \A i \in 1..k : response[i] = written[n - k + i]

\* 52 entries were appended and getAuditLog returns the 3rd to the 52nd, from
\* the encrypted store
C13_Witness ==
    /\ request # Null /\ request.op = "getAuditLog"
    /\ Len(written) = AuditLogCap + 2
    /\ Len(response) = AuditLogCap
    /\ response[1] = written[3]
    /\ storage.secure[AUDIT_LOG_KEY] = Null

(***************************************************************************)
(* The audit log under several callers.  addAuditEntry awaits the read of  *)
(* the log and, later, the write of the log it has built; between the two  *)
(* another caller's addAuditEntry can run.  auditCalls holds the calls     *)
(* that have read and not yet written; written is the set of the entries   *)
(* of the calls that have returned.  Every platform call succeeds.         *)
(***************************************************************************)
\* bound: addAuditEntry calls per behaviour
MaxAuditCalls == 3

\* what two of the callers log: LocationService and EmergencyContactService
RacingActions == {"emergency_location_fallback", "emergency_sms_sent"}

InitAuditRace ==
    /\ AppAtRest
    /\ storage = EmptyStorage
    /\ request = Null
    /\ response = Null
    /\ written = {}
    /\ auditCalls = EmptyBag
    /\ nOps = 0

\* addAuditEntry up to the end of `await this.retrieveData(AUDIT_LOG_KEY)`
AuditReads ==
    \E action \in RacingActions :
        /\ nOps < MaxAuditCalls
        /\ nOps' = nOps + 1
        /\ storage' = retrieveData(storage, AUDIT_LOG_KEY).st
        /\ auditCalls' = auditCalls (+)
              One([entry |-> AuditEntry(nOps + 1, action, "Emergency"),
                   existingLogData |-> retrieveData(storage, AUDIT_LOG_KEY).val])
        /\ request' = [op |-> "addAuditEntry"]
        /\ response' = Null
        /\ UNCHANGED << appVars, written >>

\* addAuditEntry from the parse to the end of `await this.storeData(...)`
AuditWrites ==
    \E c \in BagToSet(auditCalls) :
        /\ auditCalls' = auditCalls (-) One(c)
        /\ storage' =
              IF c.existingLogData = Garbage THEN storage
              ELSE LET auditLog == IF c.existingLogData = Null THEN <<>>
                                   ELSE ParseLog(c.existingLogData)
                   IN  storeData(storage, AUDIT_LOG_KEY,
                          StringifyLog(SliceLast(Append(auditLog, c.entry), AuditLogCap)))
        /\ written' = written \cup {c.entry}
        /\ request' = [op |-> "addAuditEntry"]
        /\ response' = Null
        /\ UNCHANGED << appVars, nOps >>

RaceGetAuditLog ==
    /\ storage' = retrieveData(storage, AUDIT_LOG_KEY).st
    /\ response' = getAuditLog(storage)
    /\ request' = [op |-> "getAuditLog"]
    /\ UNCHANGED << appVars, written, auditCalls, nOps >>

NextAuditRace ==
    \/ AuditReads
    \/ AuditWrites
    \/ RaceGetAuditLog

SpecAuditRace == InitAuditRace /\ [][NextAuditRace]_vars

(***************************************************************************)
(* C14: while fewer than 50 entries were appended and the log was not      *)
(* cleared, the entry of every addAuditEntry call that has returned is in  *)
(* the audit log, also when the calls of several callers interleave at     *)
(* their storage awaits.                                                   *)
(***************************************************************************)
C14_NoEntryLost ==
    \A e \in written : \E i \in 1..Len(getAuditLog(storage)) : getAuditLog(storage)[i] = e

(***************************************************************************)
(* The operations of SecureStorage as their callers see them: the          *)
(* operation's own storage step, then the addAuditEntry that follows it.   *)
(* storeOk tells whether the operation's own write succeeds, auditOk       *)
(* whether the write of the audit log does.  Each yields the set of the    *)
(* outcomes the platform allows: the storage left, the value returned and  *)
(* whether the operation threw.                                            *)
(***************************************************************************)
\* addAuditEntry with the error of a failed write thrown again
addAuditEntryRethrows(st, entry, auditOk) ==
    LET r == retrieveData(st, AUDIT_LOG_KEY)
        auditLog == IF r.val = Null THEN <<>> ELSE ParseLog(r.val)
        auditLogData == StringifyLog(SliceLast(Append(auditLog, entry), AuditLogCap))
    IN  IF r.val = Garbage THEN {[st |-> r.st, threw |-> TRUE]}
        ELSE IF auditOk THEN {[st |-> addAuditEntry(st, entry), threw |-> FALSE]}
        ELSE {[st |-> x, threw |-> TRUE] :
                    x \in storeDataThrows(r.st, AUDIT_LOG_KEY, auditLogData)}

\* addAuditEntry, its write succeeding or not: the catch swallows the error
addAuditEntryOutcomes(st, entry, auditOk) ==
    LET r == retrieveData(st, AUDIT_LOG_KEY)
        auditLog == IF r.val = Null THEN <<>> ELSE ParseLog(r.val)
        auditLogData == StringifyLog(SliceLast(Append(auditLog, entry), AuditLogCap))
    IN  IF r.val = Garbage THEN {[st |-> r.st, threw |-> FALSE]}
        ELSE IF auditOk THEN {[st |-> addAuditEntry(st, entry), threw |-> FALSE]}
        ELSE {[st |-> x, threw |-> FALSE] :
                    x \in storeDataThrows(r.st, AUDIT_LOG_KEY, auditLogData)}

\* the operation's own step left st and produced val; its addAuditEntry follows
ThenAudit(st, val, entry, auditOk) ==
    {[st |-> a.st, val |-> val, threw |-> a.threw] :
        a \in addAuditEntryOutcomes(st, entry, auditOk)}

\* the operation's own step threw, leaving one of the storages sts
Thrown(sts) == {[st |-> x, val |-> Null, threw |-> TRUE] : x \in sts}

saveMedicalProfileCall(st, profile, storeOk, auditOk, t) ==
    IF storeOk
    THEN ThenAudit(storeData(st, MEDICAL_PROFILE_KEY, StringifyProfile(profile)), Undefined,
                   AuditEntry(t, "medical_profile_saved",
                      "Profile updated for " \o profile.firstName \o " " \o profile.lastName),
                   auditOk)
    ELSE Thrown(storeDataThrows(st, MEDICAL_PROFILE_KEY, StringifyProfile(profile)))

getMedicalProfileCall(st, auditOk, t) ==
    LET r == getMedicalProfile(st)
    IN  IF r.threw THEN Thrown({r.st})
        ELSE IF r.val = Null THEN {[st |-> r.st, val |-> Null, threw |-> FALSE]}
        ELSE ThenAudit(r.st, r.val,
                       AuditEntry(t, "medical_profile_accessed",
                          "Profile accessed for " \o r.val.firstName \o " " \o r.val.lastName),
                       auditOk)

deleteMedicalProfile(st, auditOk, t) ==
    ThenAudit(removeData(st, MEDICAL_PROFILE_KEY), Undefined,
              AuditEntry(t, "medical_profile_deleted", "Medical profile permanently deleted"),
              auditOk)

saveEmergencySessionCall(st, session, storeOk, auditOk, t) ==
    IF storeOk
    THEN ThenAudit(saveEmergencySession(st, session), Undefined,
                   AuditEntry(t, "emergency_session_saved",
                      "Session " \o session.id \o " saved with status: " \o session.status),
                   auditOk)
    ELSE Thrown(storeDataThrows(st, EMERGENCY_SESSION_KEY, StringifySession(session)))

getEmergencySessionCall(st, auditOk, t) ==
    LET r == getEmergencySession(st)
    IN  IF r.threw THEN Thrown({r.st})
        ELSE IF r.val = Null THEN {[st |-> r.st, val |-> Null, threw |-> FALSE]}
        ELSE ThenAudit(r.st, r.val,
                       AuditEntry(t, "emergency_session_accessed",
                                  "Session " \o r.val.id \o " accessed"),
                       auditOk)

deleteEmergencySession(st, auditOk, t) ==
    ThenAudit(removeData(st, EMERGENCY_SESSION_KEY), Undefined,
              AuditEntry(t, "emergency_session_deleted", "Emergency session data cleared"),
              auditOk)

\* EncryptedAsyncStorage.clearAll: every item and every key removed
clearAll(st, dataTypes) ==
    [st EXCEPT !.async = [k \in DataKeys |-> IF k \in dataTypes THEN Null ELSE st.async[k]],
               !.encKey = [k \in DataKeys |-> IF k \in dataTypes THEN 0 ELSE st.encKey[k]]]

\* the storages a clearAll that throws can leave: some items removed, and the keys
\* of some of these
clearAllThrows(st, dataTypes) ==
    { [st EXCEPT !.async = [k \in DataKeys |-> IF k \in done[1] THEN Null ELSE st.async[k]],
                 !.encKey = [k \in DataKeys |-> IF k \in done[2] THEN 0 ELSE st.encKey[k]]] :
        done \in { d \in (SUBSET dataTypes) \X (SUBSET dataTypes) : d[2] \subseteq d[1] } }

clearAllData(st, auditOk, clearOk, t) ==
    UNION { IF p.threw THEN Thrown({p.st})
            ELSE UNION { IF s.threw THEN Thrown({s.st})
                         ELSE IF clearOk
                         THEN {[st |-> clearAll(clearAuditLog(s.st), DataKeys),
                                val |-> Undefined, threw |-> FALSE]}
                         ELSE Thrown(clearAllThrows(clearAuditLog(s.st), DataKeys)) :
                         s \in deleteEmergencySession(p.st, auditOk, t) } :
            p \in deleteMedicalProfile(st, auditOk, t) }

RECURSIVE LogAll(_, _, _, _)
\* the addAuditEntry calls of a service, one per action, in order
LogAll(st, actions, auditOk, t) ==
    IF actions = <<>> THEN {[st |-> st, threw |-> FALSE]}
    ELSE UNION { {[st |-> r.st, threw |-> a.threw \/ r.threw] :
                     r \in LogAll(a.st, Tail(actions), auditOk, t)} :
                 a \in addAuditEntryOutcomes(st, AuditEntry(t, Head(actions), "Emergency"),
                                             auditOk) }

(***************************************************************************)
(* One call of a service on a store that earlier calls have left.          *)
(* request, drawn in the initial state, names the operation, its           *)
(* arguments and what the platform does during the call; response is Null  *)
(* until the call has returned or thrown; written is the store as it was   *)
(* before the call.                                                        *)
(***************************************************************************)
\* bound: emergency contacts in a profile
MaxContacts == 3

\* the number of audit entries that take the log over the SecureStore limit
LongLogEntries == 20

RECURSIVE AppendEntries(_, _)
\* n earlier addAuditEntry calls, the last of them at time 0
AppendEntries(st, n) ==
    IF n = 0 THEN st ELSE addAuditEntry(AppendEntries(st, n - 1), SavedEntry(0 - (n - 1)))

EarlierStores ==
    { EmptyStorage,
      \* a profile, a session and a short log, all in SecureStore
      AppendEntries(storeData(storeData(EmptyStorage, MEDICAL_PROFILE_KEY,
                                        StringifyProfile(SampleProfile)),
                              EMERGENCY_SESSION_KEY, StringifySession(EarlierInProgress)), 2),
      \* a session and a log that have outgrown SecureStore
      AppendEntries(storeData(storeData(EmptyStorage, MEDICAL_PROFILE_KEY,
                                        StringifyProfile(SampleProfile)),
                              EMERGENCY_SESSION_KEY, StringifySession(LongSession)),
                    LongLogEntries),
      \* a new session saved over a long one
      AppendEntries(storeData(storeData(EmptyStorage, EMERGENCY_SESSION_KEY,
                                        StringifySession(LongSession)),
                              EMERGENCY_SESSION_KEY, StringifySession(EarlierConfirmation)), 1) }

ContactName(i) == "Contact " \o ToString(i)

\* the contact lists of up to MaxContacts contacts, each primary or not
ContactLists ==
    UNION { { [i \in 1..n |-> [name |-> ContactName(i), isPrimary |-> flags[i]]] :
                flags \in [1..n -> BOOLEAN] } : n \in 0..MaxContacts }

StorageRequests ==
    [op : {"saveEmergencySession"}, session : StoreSessions,
     storeOk : BOOLEAN, auditOk : BOOLEAN]
    \cup [op : {"saveMedicalProfile"}, profile : {SampleProfile},
          storeOk : BOOLEAN, auditOk : BOOLEAN]
    \cup [op : {"getEmergencySession", "deleteEmergencySession",
                "getMedicalProfile", "deleteMedicalProfile"}, auditOk : BOOLEAN]
    \cup [op : {"clearAuditLog"}]
    \cup [op : {"clearAllData"}, auditOk : BOOLEAN, clearOk : BOOLEAN]

LocationRequests ==
    [op : {"getLocationForEmergency"}, permissionGranted : BOOLEAN,
     servicesEnabled : BOOLEAN, primaryOk : BOOLEAN, fallbackOk : BOOLEAN,
     auditOk : BOOLEAN]

NotifierRequests ==
    UNION { [op : {"notifyEmergencyContacts"},
             profile : {[SampleProfile EXCEPT !.emergencyContacts = contacts]},
             isAvailable : BOOLEAN,
             sendResult : [1..Len(contacts) -> SendResults],
             auditOk : BOOLEAN] : contacts \in ContactLists }

InitServices ==
    /\ AppAtRest
    /\ storage \in EarlierStores
    /\ written = storage
    /\ request \in StorageRequests \cup LocationRequests \cup NotifierRequests
    /\ response = Null
    /\ auditCalls = EmptyBag
    /\ nOps = 0

\* the call returns or throws with outcome o
Completes(o) ==
    /\ storage' = o.st
    /\ response' = [val |-> o.val, threw |-> o.threw]
    /\ nOps' = nOps + 1
    /\ UNCHANGED << appVars, request, written, auditCalls >>

SaveEmergencySession ==
    /\ response = Null /\ request.op = "saveEmergencySession"
    /\ \E o \in saveEmergencySessionCall(storage, request.session, request.storeOk,
                                         request.auditOk, now) : Completes(o)

GetEmergencySession ==
    /\ response = Null /\ request.op = "getEmergencySession"
    /\ \E o \in getEmergencySessionCall(storage, request.auditOk, now) : Completes(o)

DeleteEmergencySession ==
    /\ response = Null /\ request.op = "deleteEmergencySession"
    /\ \E o \in deleteEmergencySession(storage, request.auditOk, now) : Completes(o)

SaveMedicalProfile ==
    /\ response = Null /\ request.op = "saveMedicalProfile"
    /\ \E o \in saveMedicalProfileCall(storage, request.profile, request.storeOk,
                                       request.auditOk, now) : Completes(o)

GetMedicalProfile ==
    /\ response = Null /\ request.op = "getMedicalProfile"
    /\ \E o \in getMedicalProfileCall(storage, request.auditOk, now) : Completes(o)

DeleteMedicalProfile ==
    /\ response = Null /\ request.op = "deleteMedicalProfile"
    /\ \E o \in deleteMedicalProfile(storage, request.auditOk, now) : Completes(o)

ClearAuditLogCall ==
    /\ response = Null /\ request.op = "clearAuditLog"
    /\ Completes([st |-> clearAuditLog(storage), val |-> Undefined, threw |-> FALSE])

ClearAllData ==
    /\ response = Null /\ request.op = "clearAllData"
    /\ \E o \in clearAllData(storage, request.auditOk, request.clearOk, now) : Completes(o)

GetLocationForEmergency ==
    /\ response = Null /\ request.op = "getLocationForEmergency"
    /\ LET fetch == getLocationForEmergency(request.permissionGranted,
                        request.servicesEnabled, request.primaryOk, request.fallbackOk, now)
       IN  \E a \in LogAll(storage, << fetch.action >>, request.auditOk, now) :
              Completes([st |-> a.st,
                         val |-> [result |-> fetch.result, fetches |-> fetch.fetches],
                         threw |-> fetch.threw \/ a.threw])

NotifyEmergencyContacts ==
    /\ response = Null /\ request.op = "notifyEmergencyContacts"
    /\ LET r == notifyEmergencyContacts(request.profile, request.isAvailable,
                                        request.sendResult)
       IN  \E a \in LogAll(storage, r.actions, request.auditOk, now) :
              Completes([st |-> a.st,
                         val |-> [names |-> r.names, attempted |-> r.attempted],
                         threw |-> r.threw \/ a.threw])

NextServices ==
    \/ SaveEmergencySession
    \/ GetEmergencySession
    \/ DeleteEmergencySession
    \/ SaveMedicalProfile
    \/ GetMedicalProfile
    \/ DeleteMedicalProfile
    \/ ClearAuditLogCall
    \/ ClearAllData
    \/ GetLocationForEmergency
    \/ NotifyEmergencyContacts

SpecServices == InitServices /\ [][NextServices]_vars

\* the value under key in storage st, parsed
StoredObject(st, key) ==
    LET data == retrieveData(st, key).val
    IN  IF data = Null THEN Null
        ELSE IF key = EMERGENCY_SESSION_KEY THEN ParseSession(data)
        ELSE ParseProfile(data)

(***************************************************************************)
(* C15: a failure of the audit append never fails the operation it is      *)
(* attached to.  Whether the write of the audit log succeeds or not, an    *)
(* operation whose own storage step succeeded does not throw and has its   *)
(* normal result: a save leaves the object it was given under its key, a   *)
(* get returns the object stored (null if none), a delete leaves nothing   *)
(* under the key; the location fetch and the contact notifier do not       *)
(* throw either.                                                           *)
(***************************************************************************)
C15_AuditFailureNeverFailsOperation ==
    response # Null =>
        /\ request.op = "saveEmergencySession" /\ request.storeOk
              => /\ ~response.threw
                 /\ StoredObject(storage, EMERGENCY_SESSION_KEY) = request.session
        /\ request.op = "saveMedicalProfile" /\ request.storeOk
              => /\ ~response.threw
                 /\ StoredObject(storage, MEDICAL_PROFILE_KEY) = request.profile
        /\ request.op = "getEmergencySession"
              => /\ ~response.threw
                 /\ response.val = StoredObject(written, EMERGENCY_SESSION_KEY)
        /\ request.op = "getMedicalProfile"
              => /\ ~response.threw
                 /\ response.val = StoredObject(written, MEDICAL_PROFILE_KEY)
        /\ request.op = "deleteEmergencySession"
              => /\ ~response.threw
                 /\ StoredObject(storage, EMERGENCY_SESSION_KEY) = Null
        /\ request.op = "deleteMedicalProfile"
              => /\ ~response.threw
                 /\ StoredObject(storage, MEDICAL_PROFILE_KEY) = Null
        /\ request.op \in {"getLocationForEmergency", "notifyEmergencyContacts"}
              => ~response.threw

\* a long session was saved over a stored one while the write of the (long) audit
\* log failed: the save returned, the session is stored, the log has no new entry
C15_Witness ==
    /\ response # Null
    /\ request.op = "saveEmergencySession"
    /\ request.storeOk /\ ~request.auditOk
    /\ ~response.threw
    /\ request.session = LongSession
    /\ StoredObject(storage, EMERGENCY_SESSION_KEY) = LongSession
    /\ StoredObject(written, EMERGENCY_SESSION_KEY) = EarlierInProgress
    /\ getAuditLog(storage) = getAuditLog(written)

(***************************************************************************)
(* C16: after clearAuditLog neither backing store holds the audit log, no  *)
(* entry was appended for the clear, and getAuditLog returns the empty     *)
(* list; the keys of the profile and of the session are untouched.  After  *)
(* clearAllData the audit log is empty too, although deleteMedicalProfile  *)
(* and deleteEmergencySession appended their entries before the clear.     *)
(***************************************************************************)
C16_ClearLeavesEmptyLog ==
    response # Null =>
        /\ request.op = "clearAuditLog"
              => /\ storage.secure[AUDIT_LOG_KEY] = Null
                 /\ storage.async[AUDIT_LOG_KEY] = Null
                 /\ getAuditLog(storage) = <<>>
                 /\ \A k \in DataKeys \ {AUDIT_LOG_KEY} :
                       /\ storage.secure[k] = written.secure[k]
                       /\ storage.async[k] = written.async[k]
        /\ request.op = "clearAllData"
              => /\ storage.secure[AUDIT_LOG_KEY] = Null
                 /\ storage.async[AUDIT_LOG_KEY] = Null
                 /\ getAuditLog(storage) = <<>>

\* clearAllData has returned on a store that held a profile, a session and a log of
\* 20 entries in the encrypted store, its two delete steps having logged their
\* entries
C16_Witness ==
    /\ response # Null
    /\ request.op = "clearAllData"
    /\ request.auditOk /\ request.clearOk
    /\ ~response.threw
    /\ Len(getAuditLog(written)) = LongLogEntries
    /\ written.async[AUDIT_LOG_KEY] # Null
    /\ StoredObject(written, MEDICAL_PROFILE_KEY) # Null
    /\ getAuditLog(storage) = <<>>

\* notifyEmergencyContacts has returned or thrown
NotifierDone == response # Null /\ request.op = "notifyEmergencyContacts"

\* the indices of the contacts a send was attempted for
Attempted == {response.val.attempted[a] : a \in 1..Len(response.val.attempted)}

\* the sends attempted and the names returned follow the two tiers
TiersFollowed ==
    LET contacts == request.profile.emergencyContacts
        attempted == response.val.attempted
        names == response.val.names
        Primary(i) == contacts[i].isPrimary
        Sent(i) == request.sendResult[i] = "sent"
        sent == SelectSeq(attempted, Sent)
    IN  /\ \A i \in 1..Len(contacts) :
              IF Primary(i) THEN i \in Attempted
              ELSE i \in Attempted <=> ~ \E j \in 1..Len(contacts) : Primary(j) /\ Sent(j)
        /\ \A a, b \in 1..Len(attempted) :
              a < b => \/ Primary(attempted[a]) /\ ~Primary(attempted[b])
                       \/ /\ Primary(attempted[a]) = Primary(attempted[b])
                          /\ attempted[a] < attempted[b]
        /\ Len(names) = Len(sent)
        /\ \A k \in 1..Len(sent) : names[k] = contacts[sent[k]].name

(***************************************************************************)
(* C17, as claimed: notifyEmergencyContacts attempts a send for every      *)
(* primary contact, in profile order, and for the secondary contacts, in   *)
(* profile order, if and only if no primary send succeeded; the list it    *)
(* returns is the names of the contacts whose send succeeded, in the order *)
(* of the attempts.                                                        *)
(***************************************************************************)
C17_TiersFollowed ==
    NotifierDone => TiersFollowed

(***************************************************************************)
(* C17, amended: when SMS is available on the device, the sends attempted  *)
(* and the list returned are as claimed; when it is not, no send is        *)
(* attempted for any contact and the list returned is empty.               *)
(***************************************************************************)
C17_TiersFollowedWhenSmsAvailable ==
    NotifierDone =>
        IF request.isAvailable THEN TiersFollowed
        ELSE response.val.attempted = <<>> /\ response.val.names = <<>>

\* the only primary contact is second in the profile and its send fails: it is
\* attempted first, then both secondaries, and the one that succeeds is returned
C17_Witness ==
    /\ NotifierDone
    /\ request.isAvailable
    /\ Len(request.profile.emergencyContacts) = 3
    /\ response.val.attempted = << 2, 1, 3 >>
    /\ request.sendResult = << "error", "failed", "sent" >>
    /\ response.val.names = << ContactName(3) >>

(***************************************************************************)
(* C18: notifyEmergencyContacts never throws: whatever the availability of *)
(* SMS, the result of each send (sent, not sent, exception) and the        *)
(* outcome of the audit writes, it returns a list; and when a send is      *)
(* attempted for a contact, a send is attempted for every contact of the   *)
(* same tier, whatever the sends before it did.                            *)
(***************************************************************************)
C18_NotifierNeverThrows ==
    NotifierDone =>
        /\ ~response.threw
        /\ DOMAIN response.val.names = 1..Len(response.val.names)
        /\ \A i \in Attempted : \A j \in 1..Len(request.profile.emergencyContacts) :
              request.profile.emergencyContacts[j].isPrimary
                    = request.profile.emergencyContacts[i].isPrimary
                 => j \in Attempted

\* the send to the first of three primaries throws, the second is not sent, the
\* third is sent and returned, while the audit writes fail
C18_Witness ==
    /\ NotifierDone
    /\ request.isAvailable /\ ~request.auditOk
    /\ request.sendResult = << "error", "failed", "sent" >>
    /\ response.val.attempted = << 1, 2, 3 >>
    /\ response.val.names = << ContactName(3) >>
    /\ ~response.threw
    /\ getAuditLog(storage) = getAuditLog(written)

(***************************************************************************)
(* C19: getLocationForEmergency never throws; it returns null when the     *)
(* location permission is denied, when the location services are disabled  *)
(* and when both the primary and the low-accuracy fallback position fetch  *)
(* fail; the fallback fetch is made only when the permission is held.      *)
(***************************************************************************)
C19_LocationFailsOpen ==
    (response # Null /\ request.op = "getLocationForEmergency") =>
        /\ ~response.threw
        /\ ~request.permissionGranted => response.val.result = Null
        /\ ~request.servicesEnabled => response.val.result = Null
        /\ (~request.primaryOk /\ ~request.fallbackOk) => response.val.result = Null
        /\ (\E f \in 1..Len(response.val.fetches) : response.val.fetches[f] = "Low")
              => request.permissionGranted

\* permission held, services enabled, both fetches fail: null is returned after the
\* fallback fetch, and the failed audit write changes nothing
C19_Witness ==
    /\ response # Null /\ request.op = "getLocationForEmergency"
    /\ request.permissionGranted /\ request.servicesEnabled
    /\ ~request.primaryOk /\ ~request.fallbackOk /\ ~request.auditOk
    /\ response.val.fetches = << "Balanced", "Low" >>
    /\ response.val.result = Null
    /\ ~response.threw

(***************************************************************************)
(* C20: when a transition to in_progress resolves its location race, the   *)
(* outcome of the race determines the session.  If the provider returned   *)
(* data before the 5 s timer, the session's location is that data and the  *)
(* 'emergency_confirmed' entry reads 'Location: obtained'.  If the timer   *)
(* fired first, the session has no location and the entry reads 'Location: *)
(* timeout'; a position that arrives afterwards changes neither the        *)
(* session in memory, nor the session the call goes on to save, nor the    *)
(* store, and the session saved at the end of the call has no location.    *)
(***************************************************************************)
C20_RaceDeterminesSession ==
    [][\A c \in BagToSet(calls) :
         /\ (Resumes(c) /\ c.pc = "location") =>
               \E d \in BagToSet(calls') :
                  /\ Suspends(d)
                  /\ d.race # Null
                  /\ d.updatedSession.status = "in_progress"
                  /\ LastEntry(d.updatedSession).action = "emergency_confirmed"
                  /\ (d.race.winner = "fetch" /\ d.race.fetched # Null) =>
                        /\ d.updatedSession.location = d.race.fetched
                        /\ LastEntry(d.updatedSession).details
                              = "Emergency confirmed - Location: obtained"
                  /\ d.race.winner = "timer" =>
                        /\ d.updatedSession.location = Undefined
                        /\ LastEntry(d.updatedSession).details
                              = "Emergency confirmed - Location: timeout"
         /\ (Leaves(c) /\ c.race # Null /\ c.race.winner = "timer") =>
               /\ \A d \in BagToSet(calls') :
                     Suspends(d) => d.updatedSession.location = Undefined
               /\ emergencySession' # Null /\ emergencySession' # emergencySession
                     => emergencySession'.location = Undefined
               /\ \A d \in BagToSet(calls') :
                     (Suspends(d) /\ d.race.late # Null /\ c.race.late = Null) =>
                        /\ d.updatedSession = c.updatedSession
                        /\ emergencySession' = emergencySession
                        /\ storage' = storage
               /\ (c.pc = "save" /\ alerts' = alerts
                      /\ ~ \E d \in BagToSet(calls') : Suspends(d)) =>
                     PersistedSession'.location = Undefined
    ]_vars

\* the timer won the race of a confirmation, a position arrived afterwards, and the
\* session the call is about to save has no location
C20_Witness ==
    \E c \in BagToSet(calls) :
        /\ c.currentStatus = "confirmation" /\ c.newStatus = "in_progress"
        /\ c.pc = "save"
        /\ c.race # Null /\ c.race.winner = "timer" /\ c.race.late # Null
        /\ c.updatedSession.location = Undefined
        /\ emergencySession # Null /\ emergencySession.location = Undefined

(***************************************************************************)
(* C21: the session's embedded audit log over the transitions.             *)
(***************************************************************************)
\* the audit actions a transition into `target` appends to the session
TransitionActions(target) ==
    IF target = "confirmation" THEN {"emergency_initiated"}
    ELSE IF target = "in_progress"
    THEN {"emergency_confirmed", "contacts_notified", "contact_notification_failed"}
    ELSE IF target \in TerminalStatus THEN {"emergency_" \o target}
    ELSE {"emergency_confirmed", "emergency_" \o target}

\* the session in memory after this step ends with an entry that this step appended
\* and whose action is one of `actions`
LastEntryAppended(actions) ==
    /\ emergencySession' # Null
    /\ (emergencySession = Null
          \/ emergencySession.id # emergencySession'.id
          \/ Len(emergencySession'.auditLog) > Len(emergencySession.auditLog))
    /\ LastEntry(emergencySession').action \in actions

\* C21: over the transitions of a session its auditLog never gets shorter, and
\* after each transition (detection -> confirmation, confirmation -> in_progress,
\* in_progress -> follow_up, -> completed | cancelled) the last entry of the log is
\* an entry of the transition just performed.
C21_AuditLogFollowsTransitions ==
    [][ /\ (emergencySession # Null /\ emergencySession' # Null
              /\ emergencySession'.id = emergencySession.id)
            => Len(emergencySession'.auditLog) >= Len(emergencySession.auditLog)
        /\ \A p \in BagToSet(pending) :
              (Fires(p) /\ <<p.currentStatus, p.target>> \in ClaimedEdges
                        /\ (p.emergencySession # Null \/ p.target = "confirmation")
                        /\ p.target # "in_progress")
                 => LastEntryAppended(TransitionActions(p.target))
        /\ \A c \in BagToSet(calls) :
              (Resumes(c) /\ c.newStatus = "in_progress" /\ c.pc \in {"location", "notify"}
                          /\ emergencySession' # emergencySession)
                 => LastEntryAppended(TransitionActions("in_progress"))
      ]_vars

(***************************************************************************)
(* Restart on persisted session data that cannot be deserialized: a text   *)
(* under emergency_session in SecureStore that JSON.parse rejects, or an   *)
(* encrypted copy whose key is no longer in SecureStore (getEncryptionKey  *)
(* then generates a new key and decrypt yields garbage), and restart on a  *)
(* session whose contacts were notified by the earlier run.  The app is    *)
(* the one of Spec; only the stores it starts on differ.                   *)
(***************************************************************************)
\* the store of an earlier run whose emergency_session entry is `secureData` in
\* SecureStore and `asyncData` in the encrypted store, the key of the latter lost
PersistedStorage(profileData, secureData, asyncData) ==
    [secure |-> [k \in DataKeys |->
                    IF k = MEDICAL_PROFILE_KEY THEN profileData
                    ELSE IF k = EMERGENCY_SESSION_KEY THEN secureData
                    ELSE Null],
     async |-> [k \in DataKeys |->
                    IF k = EMERGENCY_SESSION_KEY THEN asyncData ELSE Null],
     encKey |-> [k \in DataKeys |-> 0],
     keyGen |-> IF asyncData = Null THEN 0 ELSE 1]

UnreadableStorages ==
    { PersistedStorage(profileData, Garbage, Null) : profileData \in InitialProfileData }
       \cup { PersistedStorage(profileData, Null, encrypt(StringifySession(LongSession), 1)) :
                 profileData \in InitialProfileData }

\* a session of an earlier run that had a profile: in_progress, its contact notified
EarlierNotified ==
    NotifiedSession(ConfirmedSession(NewSession(SampleProfile, 0), LocationData(0),
                                     "obtained", 0),
                    << SampleProfile.emergencyContacts[1].name >>, "obtained", 0)

ReadableStorages ==
    { PersistedStorage(profileData, sessionData, Null) :
         profileData \in InitialProfileData, sessionData \in InitialSessionData }
       \cup { PersistedStorage(StringifyProfile(SampleProfile),
                               StringifySession(EarlierNotified), Null) }

InitRestart ==
    /\ emergencyStatus = "detection"
    /\ emergencySession = Null
    /\ medicalProfile = Null
    /\ appState = "active"
    /\ countdown = CountdownSeconds
    /\ isConfirmed = FALSE
    /\ pending = EmptyBag
    /\ calls = EmptyBag
    /\ inits = One(InitRun)
    /\ resetTimers = 0
    /\ storage \in UnreadableStorages \cup ReadableStorages
    /\ alerts = 0
    /\ now = 1
    /\ stateWrites = 0
    /\ nEvents = 0
    /\ request = Null
    /\ response = Null
    /\ written = Null
    /\ auditCalls = EmptyBag
    /\ nOps = 0

SpecRestart == InitRestart /\ [][Next]_vars

\* the data under emergency_session is there and does not deserialize
SessionUnreadable(st) == retrieveData(st, EMERGENCY_SESSION_KEY).val = Garbage

\* C22: when the persisted emergency-session data cannot be deserialized, the load
\* is treated as "no session": getEmergencySession does not raise, and the
\* initializeApp run goes on to set status detection and an empty session slot.
C22_UnreadableSessionIsNoSession ==
    [][ \A r \in BagToSet(inits) :
           (r.pc = "load" /\ CopiesIn(r, inits') < CopiesIn(r, inits)
               /\ ~ getMedicalProfile(storage).threw
               /\ SessionUnreadable(getMedicalProfile(storage).st))
             => /\ ~ getEmergencySession(getMedicalProfile(storage).st).threw
                /\ \E a \in BagToSet(inits') :
                      /\ a.pc = "apply" /\ a.session = Null
                      /\ CopiesIn(a, inits') > CopiesIn(a, inits)
      ]_vars

(***************************************************************************)
(* C23: the confirmation screen confirms once.                             *)
(***************************************************************************)
\* this step starts a handleConfirm of the confirmation screen, which will call
\* onConfirm when its haptics and announcement have resolved
ConfirmStarts ==
    \E p \in BagToSet(pending') :
        /\ p.target = "in_progress" /\ p.currentStatus = "confirmation"
        /\ CopiesIn(p, pending') > CopiesIn(p, pending)

LocationOutcomes ==
    {"emergency_location_permission_denied", "emergency_location_services_disabled",
     "emergency_location_obtained", "emergency_location_fallback",
     "emergency_location_failed"}

TransitionRequests ==
    [profile : {Null}, permissionGranted : BOOLEAN, servicesEnabled : BOOLEAN,
     primaryOk : BOOLEAN, fallbackOk : BOOLEAN, isAvailable : {FALSE},
     sendResult : {<<>>}]
    \cup [profile : {SampleProfile}, permissionGranted : BOOLEAN, servicesEnabled : BOOLEAN,
          primaryOk : BOOLEAN, fallbackOk : BOOLEAN, isAvailable : {FALSE},
          sendResult : {<<>>}]
    \cup [profile : {SampleProfile}, permissionGranted : BOOLEAN, servicesEnabled : BOOLEAN,
          primaryOk : BOOLEAN, fallbackOk : BOOLEAN, isAvailable : {TRUE},
          sendResult : [1..Len(SampleProfile.emergencyContacts) -> SendResults]]

InitTransition ==
    /\ AppAtRest
    /\ storage = saveEmergencySession(EmptyStorage, EarlierConfirmation)
    /\ request \in TransitionRequests
    /\ response = [location |-> "fetching", race |-> "running", app |-> "race",
                   actions |-> <<>>]
    /\ written = Null
    /\ auditCalls = EmptyBag
    /\ nOps = 0

\* the fetch of this behaviour
TransitionFetch ==
    getLocationForEmergency(request.permissionGranted, request.servicesEnabled,
                            request.primaryOk, request.fallbackOk, now)

\* the session the transition builds, from how the race went
TransitionSession(race) ==
    LET location == IF race = "fetch" THEN TransitionFetch.result ELSE Null
        locationStatus == IF race = "timer" THEN "timeout"
                          ELSE IF location # Null THEN "obtained" ELSE "permission_denied"
        confirmed == ConfirmedSession(EarlierConfirmation, location, locationStatus, now)
    IN  IF request.profile = Null THEN confirmed
        ELSE NotifiedSession(confirmed,
                notifyEmergencyContacts(request.profile, request.isAvailable,
                                        request.sendResult).names,
                locationStatus, now)

\* handleStatusChange after the race: on to the notifier, or to the save
AfterRace(race) ==
    IF request.profile # Null
    THEN [response EXCEPT !.race = race, !.app = "notify",
             !.actions = notifyEmergencyContacts(request.profile, request.isAvailable,
                                                 request.sendResult).actions]
    ELSE [response EXCEPT !.race = race, !.app = "save"]

\* addAuditEntry of `caller` up to the end of its read of the log
ReadsLog(caller, action) ==
    /\ storage' = retrieveData(storage, AUDIT_LOG_KEY).st
    /\ auditCalls' = auditCalls (+)
          One([caller |-> caller, entry |-> AuditEntry(now, action, "Emergency"),
               existingLogData |-> retrieveData(storage, AUDIT_LOG_KEY).val])

\* getLocationForEmergency has its answer and calls addAuditEntry
LocationLogs ==
    /\ response.location = "fetching"
    /\ ReadsLog("location", TransitionFetch.action)
    /\ response' = [response EXCEPT !.location = "logging"]
    /\ UNCHANGED << appVars, request, written, nOps >>

\* setTimeout(() => reject(new Error('Location timeout')), 5000) fires first
TimerRejects ==
    /\ response.race = "running" /\ response.location # "resolved"
    /\ response' = AfterRace("timer")
    /\ UNCHANGED << appVars, storage, request, written, auditCalls, nOps >>

\* the notifier calls addAuditEntry for its next action
NotifierLogs ==
    /\ response.app = "notify" /\ response.actions # <<>>
    /\ ReadsLog("app", Head(response.actions))
    /\ response' = [response EXCEPT !.app = "logging", !.actions = Tail(@)]
    /\ UNCHANGED << appVars, request, written, nOps >>

\* saveEmergencySession(updatedSession): storeData, then its addAuditEntry starts
SessionSaved ==
    /\ response.app = "save"
    /\ LET session == TransitionSession(response.race)
           st == saveEmergencySession(storage, session)
       IN  /\ storage' = retrieveData(st, AUDIT_LOG_KEY).st
           /\ auditCalls' = auditCalls (+)
                 One([caller |-> "app",
                      entry |-> AuditEntry(now, "emergency_session_saved",
                                   "Session " \o session.id \o " saved with status: "
                                      \o session.status),
                      existingLogData |-> retrieveData(st, AUDIT_LOG_KEY).val])
    /\ response' = [response EXCEPT !.app = "saved"]
    /\ UNCHANGED << appVars, request, written, nOps >>

\* a suspended addAuditEntry writes the log it has built and returns to its caller
LogWritten ==
    \E c \in BagToSet(auditCalls) :
        /\ auditCalls' = auditCalls (-) One(c)
        /\ storage' =
              IF c.existingLogData = Garbage THEN storage
              ELSE LET auditLog == IF c.existingLogData = Null THEN <<>>
                                   ELSE ParseLog(c.existingLogData)
                   IN  storeData(storage, AUDIT_LOG_KEY,
                          StringifyLog(SliceLast(Append(auditLog, c.entry), AuditLogCap)))
        /\ response' =
              IF c.caller = "location"
              THEN IF response.race = "running"
                   THEN [AfterRace("fetch") EXCEPT !.location = "resolved"]
                   ELSE [response EXCEPT !.location = "resolved"]
              ELSE IF response.app = "saved" THEN [response EXCEPT !.app = "done"]
              ELSE IF response.actions = <<>> THEN [response EXCEPT !.app = "save"]
              ELSE [response EXCEPT !.app = "notify"]
        /\ nOps' = nOps + 1
        /\ UNCHANGED << appVars, request, written >>

NextTransition ==
    \/ LocationLogs
    \/ TimerRejects
    \/ NotifierLogs
    \/ SessionSaved
    \/ LogWritten

SpecTransition == InitTransition /\ [][NextTransition]_vars

\* the positions in the global audit log of the entries with an action in `actions`
PositionsOf(actions) ==
    {i \in 1..Len(getAuditLog(storage)) : getAuditLog(storage)[i].action \in actions}

\* C24: during confirmation -> in_progress the entries of the global audit log are
\* in the order location outcome, 'emergency_contacts_notified',
\* 'emergency_session_saved', whatever the location outcome, a timeout with the
\* fetch still running included: no entry of a later kind precedes one of an
\* earlier kind, and when the transition has ended the location outcome and the
\* persistence confirmation are in the log.
C24_LocationNotifiedSavedInOrder ==
    /\ \A i \in PositionsOf(LocationOutcomes) :
          \A j \in PositionsOf({"emergency_contacts_notified", "emergency_session_saved"}) :
             i < j
    /\ \A j \in PositionsOf({"emergency_contacts_notified"}) :
          \A k \in PositionsOf({"emergency_session_saved"}) : j < k
    /\ response.app = "done"
          => /\ PositionsOf(LocationOutcomes) # {}
             /\ PositionsOf({"emergency_session_saved"}) # {}

(***************************************************************************)
(* C25: nothing of an emergency goes on after its cancellation.            *)
(***************************************************************************)
\* handleStatusChange('cancelled') has started for the session with this id: its
\* call is suspended at the save, or the cancelled session is in memory or persisted
CancelStarted(id) ==
    \/ \E d \in BagToSet(calls) :
          d.newStatus = "cancelled" /\ d.emergencySession # Null /\ d.emergencySession.id = id
    \/ emergencySession # Null /\ emergencySession.id = id
          /\ emergencySession.status = "cancelled"
    \/ PersistedSession # Null /\ PersistedSession.id = id
          /\ PersistedSession.status = "cancelled"

\* C25: once the cancellation of a session has started, no emergency SMS is sent
\* for that session and no save writes that session with status in_progress, also
\* when the cancel was pressed while the in_progress transition was waiting
\* for its location fetch or while the countdown was about to run out.
C25_CancelledStaysCancelled ==
    [][ /\ \A c \in BagToSet(calls) :
              (Resumes(c) /\ c.pc = "notify" /\ CancelStarted(c.emergencySession.id))
                 => emergencySession'.contactsNotified = <<>>
        /\ (PersistedSession' # Null /\ PersistedSession' # PersistedSession
               /\ CancelStarted(PersistedSession'.id))
              => PersistedSession'.status # "in_progress"
      ]_vars

(***************************************************************************)
(* C26: the grace-delay reset and a new emergency.                         *)
(***************************************************************************)
\* C26: the reset that a terminal transition scheduled clears only the session that
\* reached the terminal status: when the timer fires while that session is the
\* persisted one and the session in memory is another one that is not terminal (a
\* new emergency was started on the detection screen shown for completed /
\* cancelled), it leaves the status and the session slot as they are.
C26_ResetSparesNewSession ==
    [][ (resetTimers' = resetTimers - 1
            /\ PersistedSession # Null /\ PersistedSession.status \in TerminalStatus
            /\ emergencySession # Null /\ emergencySession.id # PersistedSession.id
            /\ emergencySession.status \notin TerminalStatus)
          => (emergencySession' = emergencySession /\ emergencyStatus' = emergencyStatus)
      ]_vars

(***************************************************************************)
(* C27: one notification per session.                                      *)
(***************************************************************************)
\* the session's audit trail records a return of the contact notifier
WasNotified(session) ==
    \E i \in 1..Len(session.auditLog) : session.auditLog[i].action = "contacts_notified"

\* C27: within one emergency session the contact notifier is invoked at most once,
\* so that no contact gets a second emergency SMS, over any sequence of
\* transitions, 'I need more help' on the follow-up screen included: a notifier
\* call returns only for a session that no notifier call has returned for before.
C27_NotifiedOncePerSession ==
    [][ \A c \in BagToSet(calls) :
           (Resumes(c) /\ c.pc = "notify") => ~ WasNotified(c.emergencySession)
      ]_vars

(***************************************************************************)
(* C28: app-state changes and the emergency status.                        *)
(***************************************************************************)
\* this step is an initializeApp run writing what it loaded into the state, and it
\* is not the run of the mount: medicalProfile is set by initializeApp only, so an
\* earlier run has written already and this one was set off by an app-state change
ReappliesLoaded ==
    /\ medicalProfile # Null
    /\ \E r \in BagToSet(inits) : r.pc = "apply" /\ CopiesIn(r, inits') < CopiesIn(r, inits)

\* C28: an app-state change leaves the emergency status and the session in memory
\* as they are: neither the change itself nor the initializeApp run it sets off
\* moves the app to another status during follow_up, during the grace delay
\* (completed / cancelled) or in detection.
C28_AppStateChangeKeepsStatus ==
    [][ /\ appState' # appState
           => (emergencyStatus' = emergencyStatus /\ emergencySession' = emergencySession)
        /\ (ReappliesLoaded
               /\ emergencyStatus \in {"follow_up", "completed", "cancelled", "detection"})
           => (emergencyStatus' = emergencyStatus /\ emergencySession' = emergencySession)
      ]_vars

(***************************************************************************)
(* Progress.  What the app itself does happens in the end: a suspended     *)
(* handler or call resumes, a pending promise settles one way or the       *)
(* other, a timer that was set fires.  What the user or the system does    *)
(* (presses, the countdown's bounded ticks, app-state changes) need not    *)
(* happen.                                                                 *)
(***************************************************************************)
Fairness ==
    /\ WF_vars(Fire)
    /\ WF_vars(LocationReturns \/ LocationTimeout)
    /\ WF_vars(NotifierReturns)
    /\ WF_vars(SaveReturns \/ SaveThrows)
    /\ WF_vars(GraceTimerFires)
    /\ WF_vars(InitializeLoads)
    /\ WF_vars(InitializeApplies)

SpecLive == Init /\ [][Next]_vars /\ Fairness

\* C29: after every transition into completed or cancelled the app eventually is
\* back in status detection with an empty session slot, with or without an active
\* session and whether or not the save of the terminal session succeeds.
C29_TerminalLeadsToDetection ==
    (emergencyStatus \in TerminalStatus)
        ~> (emergencyStatus = "detection" /\ emergencySession = Null)

(***************************************************************************)
(* EncryptedAsyncStorage under several callers.  setItem awaits the read   *)
(* of the encryption key, then (when there is none) the random bytes and   *)
(* the write of the new key, then the write of the ciphertext; removeItem  *)
(* awaits the removal of the data and then that of the key.  Between two   *)
(* awaits of one call the steps of another call can run.  auditCalls holds *)
(* the calls in flight; written[dataType] is the text of the latest        *)
(* ciphertext write, Null after a removal.  getItem runs with no other     *)
(* call's step between its own.  Every platform call succeeds.             *)
(***************************************************************************)
\* bound: setItem and removeItem calls per behaviour
MaxKeyCalls == 3

\* texts that storeData routes to the encrypted store
KeyRaceValues == {Text(SECURE_STORE_SIZE_LIMIT + 1, "b"), StringifySession(LongSession)}

InitKeyRace ==
    /\ AppAtRest
    /\ storage = EmptyStorage
    /\ request = Null
    /\ response = Null
    /\ written = [k \in DataKeys |-> Null]
    /\ auditCalls = EmptyBag
    /\ nOps = 0

\* a call in flight moves on to `next`, or returns when next is Null
KeyRaceStep(c, next, st, wr) ==
    /\ auditCalls' = IF next = Null THEN auditCalls (-) One(c)
                     ELSE (auditCalls (-) One(c)) (+) One(next)
    /\ storage' = st
    /\ written' = wr
    /\ request' = [op |-> c.op, dataType |-> c.dataType]
    /\ response' = Null
    /\ UNCHANGED << appVars, nOps >>

\* setItem up to `await SecureStore.getItemAsync(...)` in getEncryptionKey
SetItemCalled ==
    \E dataType \in DataKeys, data \in KeyRaceValues :
        /\ nOps < MaxKeyCalls
        /\ nOps' = nOps + 1
        /\ auditCalls' = auditCalls (+)
              One([op |-> "setItem", dataType |-> dataType, data |-> data,
                   pc |-> "getKey", key |-> 0])
        /\ request' = [op |-> "setItem", dataType |-> dataType]
        /\ response' = Null
        /\ UNCHANGED << appVars, storage, written >>

\* getEncryptionKey: the awaited read of the key returns
KeyRead ==
    \E c \in BagToSet(auditCalls) :
        /\ c.pc = "getKey"
        /\ LET key == storage.encKey[c.dataType]
           IN  KeyRaceStep(c, IF key # 0 THEN [c EXCEPT !.pc = "write", !.key = key]
                              ELSE [c EXCEPT !.pc = "random"],
                           storage, written)

\* generateEncryptionKey: the awaited random bytes arrive, a key no call had before
RandomReturns ==
    \E c \in BagToSet(auditCalls) :
        /\ c.pc = "random"
        /\ KeyRaceStep(c, [c EXCEPT !.pc = "storeKey", !.key = storage.keyGen + 1],
                       [storage EXCEPT !.keyGen = @ + 1], written)

\* generateEncryptionKey: the awaited write of the new key returns
KeyStored ==
    \E c \in BagToSet(auditCalls) :
        /\ c.pc = "storeKey"
        /\ KeyRaceStep(c, [c EXCEPT !.pc = "write"],
                       [storage EXCEPT !.encKey[c.dataType] = c.key], written)

\* setItem: encrypt with the key it got, and the awaited AsyncStorage.setItem returns
DataWritten ==
    \E c \in BagToSet(auditCalls) :
        /\ c.pc = "write"
        /\ KeyRaceStep(c, Null,
                       [storage EXCEPT !.async[c.dataType] = encrypt(c.data, c.key)],
                       [written EXCEPT ![c.dataType] = c.data])

\* removeItem up to `await AsyncStorage.removeItem(dataType)`
RemoveItemCalled ==
    \E dataType \in DataKeys :
        /\ nOps < MaxKeyCalls
        /\ nOps' = nOps + 1
        /\ auditCalls' = auditCalls (+)
              One([op |-> "removeItem", dataType |-> dataType, data |-> Null,
                   pc |-> "removeData", key |-> 0])
        /\ request' = [op |-> "removeItem", dataType |-> dataType]
        /\ response' = Null
        /\ UNCHANGED << appVars, storage, written >>

\* removeItem: the awaited removal of the data returns
DataRemoved ==
    \E c \in BagToSet(auditCalls) :
        /\ c.pc = "removeData"
        /\ KeyRaceStep(c, [c EXCEPT !.pc = "deleteKey"],
                       [storage EXCEPT !.async[c.dataType] = Null],
                       [written EXCEPT ![c.dataType] = Null])

\* removeItem: the awaited deletion of the key returns
KeyDeleted ==
    \E c \in BagToSet(auditCalls) :
        /\ c.pc = "deleteKey"
        /\ KeyRaceStep(c, Null, [storage EXCEPT !.encKey[c.dataType] = 0], written)

RaceGetItem ==
    \E dataType \in DataKeys :
        /\ storage' = getItem(storage, dataType).st
        /\ response' = getItem(storage, dataType).val
        /\ request' = [op |-> "getItem", dataType |-> dataType]
        /\ UNCHANGED << appVars, written, auditCalls, nOps >>

NextKeyRace ==
    \/ SetItemCalled
    \/ KeyRead
    \/ RandomReturns
    \/ KeyStored
    \/ DataWritten
    \/ RemoveItemCalled
    \/ DataRemoved
    \/ KeyDeleted
    \/ RaceGetItem

SpecKeyRace == InitKeyRace /\ [][NextKeyRace]_vars

\* C30: whenever the encrypted store holds data for a key, SecureStore holds the
\* encryption key that data was encrypted with, and getItem returns the text of
\* the latest setItem write; also when setItem calls on one key interleave while
\* no encryption key exists yet.
C30_StoredDataHasItsKey ==
    /\ \A dataType \in DataKeys :
          storage.async[dataType] # Null
              => storage.encKey[dataType] = storage.async[dataType].key
    /\ (request # Null /\ request.op = "getItem")
          => response = written[request.dataType]

====
